---- MODULE Spec2Model ----
(***************************************************************************)
(* Model of The Jungeon (michael-brent/MUD): the procedural world          *)
(* generators (server/utils/map-generator.js, lock-manager.js), the        *)
(* startup sequence (server/index.js, server/state-manager.js), the game   *)
(* engine (server/game-engine.js, server/utils/room-utils.js) and the      *)
(* session layer (websocket-handler.js, utils/timeout-manager.js).         *)
(*                                                                         *)
(* Room ids room_<i> are the integers i; a JavaScript undefined/null is    *)
(* the string "undefined", the integer -1 or the record NullPos, so that   *)
(* every field keeps one type.  Math.random() and the contents of the data *)
(* files are inputs, drawn with \E from bounded sets.                      *)
(***************************************************************************)
EXTENDS Integers, Sequences, FiniteSets, TLC

(***************************************************************************)
(* Bounds.  The program's sizes are scaled down; the code is the same.     *)
(***************************************************************************)
\* MapGenerator.ROOM_COUNT (100 in the source) for the map-generation runs
ROOM_COUNT == 10
\* room count of the world the startup and engine runs are played on
WORLD_ROOMS == 5
\* rooms of the worlds the engine serves here
ENGINE_ROOMS == 3
\* LockManager.MIN_LOCKS / MAX_LOCKS (5 and 10 in the source)
MIN_LOCKS == 1
MAX_LOCKS == 2
\* LockManager.MIN_KEY_DISTANCE (10 in the source), scaled to the small grid
MIN_KEY_DISTANCE == 3
\* sockets that connect, known characters, ghosts (3 to 5 in the program)
MaxSessions == 2
NumCharacters == 2
MIN_GHOSTS == 1
MAX_GHOSTS == 1
\* the gold of the starting room, the moves a ghost makes
StartGold == 2
MaxGhostMoves == 1
MaxRespawns == 1
MinPurse == 10
MaxPurse == 40
COIN_ROOMS == 2

(***************************************************************************)
(* Program constants.                                                      *)
(***************************************************************************)
\* CONNECTIVITY_DIST, in percent
ONE_EXIT_PCT == 10
TWO_EXITS_PCT == 80
MANY_EXITS_PCT == 10
\* createLock's attempt budget
LOCK_ATTEMPTS == 50
MIN_GOLD == 0
MAX_GOLD == 10
ITEMS_PER_ROOM_RATIO == 3
\* ghost-manager.js: gold loss of an encounter, in thousandths
MIN_GOLD_LOSS == 100
MAX_GOLD_LOSS == 300
\* coin-spawner.js: the respawn interval of a room that configures none
DEFAULT_RESPAWN_INTERVAL == 300000

\* the clock stops being read by collections at this time
MaxClock == MaxRespawns * DEFAULT_RESPAWN_INTERVAL

VARIABLES
    phase,          \* position of the startup sequence / "running"
    rooms,          \* worldData.rooms: id -> room
    locks,          \* addLocksAndKeys' local list of locks created
    lockCount,      \* addLocksAndKeys' lockCount (-1 before it is drawn)
    lockIter,       \* addLocksAndKeys' loop counter i
    players,        \* GameEngine.players: session id -> player
    gameState,      \* the game state object shared by engine and state manager
    ghosts,         \* GhostManager.ghosts
    spawnTimers,    \* CoinSpawner.spawnTimers: room id -> pending respawn
    now,            \* the clock read by new Date()
    socketState,    \* socket id -> "new", "connected" or "closed"
    sessions,       \* WebSocketHandler.sessions: socket id -> session data
    characterTimers, \* TimeoutManager.characterTimers: the session ids with a timer
    idleTimers,     \* TimeoutManager.idleTimers: the session ids with a timer
    files,          \* data/world.json and data/game-state.json on disk
    pc,             \* the callback the event loop is running and where it is
    autosaveTimer,  \* StateManager.autosaveTimer is set
    timeouts,       \* the setTimeout timers of the event loop that are pending
    lastActivity,   \* history: socket id -> time of its last updateActivity call
    writes          \* the fs.writeFile calls of saveState that are in flight

(***************************************************************************)
(* Directions and grid helpers.                                            *)
(***************************************************************************)
Directions == <<"north", "south", "east", "west">>

DirSet == {"north", "south", "east", "west"}

NullPos == [x |-> -1, y |-> -1]

NoExit == [to |-> -1, type |-> "none", keyRequired |-> "undefined",
           requiredItem |-> "undefined"]

OpenExit(dest) == [to |-> dest, type |-> "open", keyRequired |-> "undefined",
                   requiredItem |-> "undefined"]

Delta(dir) ==
    CASE dir = "north" -> [dx |-> 0, dy |-> -1]
      [] dir = "south" -> [dx |-> 0, dy |-> 1]
      [] dir = "east"  -> [dx |-> 1, dy |-> 0]
      [] dir = "west"  -> [dx |-> -1, dy |-> 0]

getReverseDirection(dir) ==
    CASE dir = "north" -> "south"
      [] dir = "south" -> "north"
      [] dir = "east"  -> "west"
      [] dir = "west"  -> "east"

Abs(i) == IF i < 0 THEN -i ELSE i

Distance(p, q) == Abs(p.x - q.x) + Abs(p.y - q.y)

\* Math.ceil(Math.sqrt(n))
GridSize(n) == CHOOSE g \in 1..n : g * g >= n /\ (g - 1) * (g - 1) < n

\* the keys of room.exits, in insertion order
ExitKeys(room) == room.exitOrder

NumExits(room) == Len(room.exitOrder)

HasExit(room, dir) == room.exits[dir].type # "none"

\* room.exits[dir] = value: a new key goes to the end of the key order
SetExit(room, dir, value) ==
    [room EXCEPT !.exits[dir] = value,
                 !.exitOrder = IF HasExit(room, dir) THEN @ ELSE Append(@, dir)]

SeqToSet(s) == {s[i] : i \in 1..Len(s)}

(***************************************************************************)
(* MapGenerator                                                            *)
(***************************************************************************)
createRoom(target) ==
    [exits |-> [d \in DirSet |-> NoExit], exitOrder |-> <<>>,
     targetExits |-> target, position |-> NullPos,
     items |-> <<>>, objects |-> <<>>,
     coins |-> [spawnType |-> "initial-only", amount |-> 0, respawnInterval |-> 0]]

\* assignConnectivity's counts for n rooms
ConnectivityCounts(n) ==
    LET one  == (n * ONE_EXIT_PCT) \div 100
        two  == (n * TWO_EXITS_PCT) \div 100
        many == (n * MANY_EXITS_PCT) \div 100
    IN  [oneExit |-> one, twoExits |-> two + (n - (one + two + many)), manyExits |-> many]

\* every assignment createRooms + assignConnectivity can produce: the shuffle
\* puts any rooms in each class, and a hub draws 3 or 4
TargetAssignments(n) ==
    LET ids == 0..(n - 1)
        c   == ConnectivityCounts(n)
    IN  UNION { UNION { { [i \in ids |-> IF i \in ones THEN 1
                                         ELSE IF i \in hubs THEN h[i] ELSE 2]
                          : h \in [hubs -> {3, 4}] }
                        : hubs \in {S \in SUBSET (ids \ ones) : Cardinality(S) = c.manyExits} }
                : ones \in {S \in SUBSET ids : Cardinality(S) = c.oneExit} }

\* the id of the room at grid cell (x, y), -1 when there is none
RoomAt(rs, x, y) ==
    LET hit == {id \in DOMAIN rs : rs[id].position # NullPos
                                   /\ rs[id].position.x = x /\ rs[id].position.y = y}
    IN  IF hit = {} THEN -1 ELSE CHOOSE id \in hit : \A o \in hit : id <= o

assignPositions(rs, n) ==
    [id \in DOMAIN rs |-> [rs[id] EXCEPT !.position =
        [x |-> id % GridSize(n), y |-> id \div GridSize(n)]]]

findNeighborInDirection(rs, id, dir) ==
    RoomAt(rs, rs[id].position.x + Delta(dir).dx, rs[id].position.y + Delta(dir).dy)

\* a check that lets every room take another connection
canAddConnectionAlways(room) == TRUE

canAddConnection(room) ==
    NumExits(room) < (IF room.targetExits = 0 THEN 2 ELSE room.targetExits)

addBidirectionalConnection(rs, a, b) ==
    LET dx == rs[b].position.x - rs[a].position.x
        dy == rs[b].position.y - rs[a].position.y
        dir1 == IF dx = 1 THEN "east" ELSE IF dx = -1 THEN "west"
                ELSE IF dy = 1 THEN "south" ELSE IF dy = -1 THEN "north" ELSE "undefined"
    IN  IF dir1 = "undefined" THEN rs
        ELSE LET r1 == [rs EXCEPT ![a] = SetExit(@, dir1, OpenExit(b))]
             IN  [r1 EXCEPT ![b] = SetExit(@, getReverseDirection(dir1), OpenExit(a))]

getUnconnectedNeighbors(rs, id, visited) ==
    LET cand(i) == findNeighborInDirection(rs, id, Directions[i])
        ok(i)   == cand(i) # -1 /\ cand(i) \notin visited /\ ~HasExit(rs[id], Directions[i])
        acc[i \in 0..4] == IF i = 0 THEN <<>>
                           ELSE IF ok(i) THEN Append(acc[i - 1], cand(i)) ELSE acc[i - 1]
    IN  acc[4]

RECURSIVE connectNeighbors(_, _, _, _, _)
connectNeighbors(rs, visited, queue, cur, nbrs) ==
    IF nbrs = <<>> THEN [rooms |-> rs, visited |-> visited, queue |-> queue]
    ELSE LET nb == Head(nbrs)
         IN  IF canAddConnection(rs[cur]) /\ canAddConnection(rs[nb])
             THEN connectNeighbors(addBidirectionalConnection(rs, cur, nb),
                                   visited \cup {nb}, Append(queue, nb), cur, Tail(nbrs))
             ELSE connectNeighbors(rs, visited, queue, cur, Tail(nbrs))

\* the breadth-first spanning loop of connectRooms
RECURSIVE spanningPass(_, _, _, _)
spanningPass(rs, visited, queue, n) ==
    IF queue = <<>> \/ Cardinality(visited) >= n THEN rs
    ELSE LET cur  == Head(queue)
             step == connectNeighbors(rs, visited, Tail(queue), cur,
                                      getUnconnectedNeighbors(rs, cur, visited))
         IN  spanningPass(step.rooms, step.visited, step.queue, n)

\* the inner loop of fillRemainingConnections for one room
RECURSIVE fillRoom(_, _, _, _, _)
fillRoom(rs, id, avail, i, needed) ==
    IF ~(i < needed /\ i < Len(avail)) THEN rs
    ELSE LET nb == findNeighborInDirection(rs, id, avail[i + 1])
         IN  IF nb # -1 /\ canAddConnection(rs[nb])
             THEN fillRoom(addBidirectionalConnection(rs, id, nb), id, avail, i + 1, needed)
             ELSE fillRoom(rs, id, avail, i + 1, needed)

RECURSIVE fillFrom(_, _, _)
fillFrom(rs, id, n) ==
    IF id >= n THEN rs
    ELSE LET room   == rs[id]
             needed == (IF room.targetExits = 0 THEN 2 ELSE room.targetExits) - NumExits(room)
             avail  == SelectSeq(Directions, LAMBDA d : ~HasExit(room, d))
         IN  fillFrom(IF needed > 0 THEN fillRoom(rs, id, avail, 0, needed) ELSE rs, id + 1, n)

fillRemainingConnections(rs, n) == fillFrom(rs, 0, n)

connectRooms(rs, n) ==
    fillRemainingConnections(spanningPass(assignPositions(rs, n), {0}, <<0>>, n), n)

\* the breadth-first traversal of ensureReachability: the reachable set in
\* insertion order
RECURSIVE visitExits(_, _, _, _, _)
visitExits(rs, reach, queue, cur, keys) ==
    IF keys = <<>> THEN [reach |-> reach, queue |-> queue]
    ELSE LET nb == rs[cur].exits[Head(keys)].to
         IN  IF nb \notin SeqToSet(reach)
             THEN visitExits(rs, Append(reach, nb), Append(queue, nb), cur, Tail(keys))
             ELSE visitExits(rs, reach, queue, cur, Tail(keys))

RECURSIVE traverse(_, _, _)
traverse(rs, reach, queue) ==
    IF queue = <<>> THEN reach
    ELSE LET step == visitExits(rs, reach, Tail(queue), Head(queue), ExitKeys(rs[Head(queue)]))
         IN  traverse(rs, step.reach, step.queue)

\* the first reachable room (in insertion order) at Manhattan distance 1, or -1
nearestReachable(rs, reach, id) ==
    LET hits == {i \in 1..Len(reach) : Distance(rs[id].position, rs[reach[i]].position) = 1}
    IN  IF hits = {} THEN -1 ELSE reach[CHOOSE i \in hits : \A j \in hits : i <= j]

RECURSIVE repairFrom(_, _, _, _, _)
repairFrom(rs, reach, unreachable, id, n) ==
    IF id >= n THEN rs
    ELSE IF id \notin unreachable THEN repairFrom(rs, reach, unreachable, id + 1, n)
    ELSE LET near == nearestReachable(rs, reach, id)
         IN  IF near # -1
             THEN repairFrom(addBidirectionalConnection(rs, id, near), Append(reach, id),
                             unreachable, id + 1, n)
             ELSE repairFrom(rs, reach, unreachable, id + 1, n)

\* a repair pass that leaves the unreachable rooms as they are
ensureReachabilityNoRepair(rs, n) == rs

ensureReachability(rs, n) ==
    LET reach == traverse(rs, <<0>>, <<0>>)
    IN  repairFrom(rs, reach, DOMAIN rs \ SeqToSet(reach), 0, n)

\* MapGenerator.generate for n rooms and a draw of target exit counts
generate(n, targets) ==
    ensureReachability(connectRooms([id \in 0..(n - 1) |-> createRoom(targets[id])], n), n)

(***************************************************************************)
(* GoldDistributor and ItemGenerator, as far as the world pipeline needs   *)
(* them: where the gold and the generated items end up.                    *)
(***************************************************************************)
ItemIdTable == <<"item_0", "item_1", "item_2", "item_3", "item_4", "item_5", "item_6",
                 "item_7">>

KeyIdTable == <<"key_0", "key_1", "key_2", "key_3">>

\* `item_${k}` and `key_${k}`
ItemId(k) == ItemIdTable[k + 1]

KeyId(k) == KeyIdTable[k + 1]

ItemTypes == <<"weapons", "armor", "potions", "treasures", "tools", "magical">>

\* the amounts generateGoldAmount is drawn from here: both ends of its clamp
GoldSamples == {MIN_GOLD, MAX_GOLD}

distributeGold(rs, amounts) ==
    [id \in DOMAIN rs |-> [rs[id] EXCEPT !.coins.amount = amounts[id]]]

\* generateItemPool(count): the types in order, the remainder to the first ones
RECURSIVE itemPoolFrom(_, _, _, _)
itemPoolFrom(items, t, j, count) ==
    LET perType == count \div Len(ItemTypes)
        extra   == count % Len(ItemTypes)
    IN  IF t > Len(ItemTypes) THEN items
        ELSE IF j >= perType + (IF t - 1 < extra THEN 1 ELSE 0)
             THEN itemPoolFrom(items, t + 1, 0, count)
             ELSE itemPoolFrom(Append(items, [id |-> ItemId(Len(items)), type |-> ItemTypes[t],
                                              unlocks |-> <<-1, "undefined">>]),
                               t, j + 1, count)

generateItemPool(count) == itemPoolFrom(<<>>, 1, 0, count)

\* the placement loop of ItemGenerator.distribute for a shuffled room order
RECURSIVE placeItems(_, _, _, _)
placeItems(rs, pool, shuffled, i) ==
    IF i > Len(pool) \/ i > Len(shuffled) THEN rs
    ELSE placeItems([rs EXCEPT ![shuffled[i]].items = Append(@, pool[i])], pool, shuffled, i + 1)

\* the orders of the first k rooms a shuffle can give
ShufflePrefixes(ids, k) ==
    {q \in [1..k -> ids] : \A i, j \in 1..k : i # j => q[i] # q[j]}

(***************************************************************************)
(* LockManager                                                             *)
(***************************************************************************)
LockedExit(dest, key) == [to |-> dest, type |-> "locked", keyRequired |-> key,
                          requiredItem |-> "undefined"]

\* createLock: the (room, direction) pairs one attempt can pick
LockPicks(rs) == {<<id, d>> \in (DOMAIN rs) \X DirSet : HasExit(rs[id], d)}

alreadyLocked(existingLocks, id, d) ==
    \E i \in 1..Len(existingLocks) :
        existingLocks[i].roomId = id /\ existingLocks[i].direction = d

LockPickOk(rs, existingLocks, pick) ==
    ~alreadyLocked(existingLocks, pick[1], pick[2]) /\ rs[pick[1]].exits[pick[2]].type = "open"

\* an attempt fails on a room without exits or on a pick that is not lockable
AttemptCanFail(rs, existingLocks) ==
    \/ \E id \in DOMAIN rs : NumExits(rs[id]) = 0
    \/ \E pick \in LockPicks(rs) : ~LockPickOk(rs, existingLocks, pick)

NullLock == [roomId |-> -1, direction |-> "undefined", keyId |-> "undefined", targetRoomId |-> -1]

\* every value createLock can return: a lockable pick, or null after
\* LOCK_ATTEMPTS failed attempts
createLock(rs, existingLocks) ==
    { [roomId |-> pick[1], direction |-> pick[2], keyId |-> KeyId(Len(existingLocks)),
       targetRoomId |-> rs[pick[1]].exits[pick[2]].to]
      : pick \in {p \in LockPicks(rs) : LOCK_ATTEMPTS > 0 /\ LockPickOk(rs, existingLocks, p)} }
    \cup (IF LOCK_ATTEMPTS = 0 \/ AttemptCanFail(rs, existingLocks) THEN {NullLock} ELSE {})

\* a lock whose reverse exit leads to the target room itself
applyLockMisdirected(rs, lock) ==
    IF lock.roomId \notin DOMAIN rs \/ lock.targetRoomId \notin DOMAIN rs THEN rs
    ELSE LET r1  == [rs EXCEPT ![lock.roomId] =
                        SetExit(@, lock.direction, LockedExit(lock.targetRoomId, lock.keyId))]
             rev == getReverseDirection(lock.direction)
         IN  IF HasExit(r1[lock.targetRoomId], rev)
             THEN [r1 EXCEPT ![lock.targetRoomId] =
                      SetExit(@, rev, LockedExit(lock.targetRoomId, lock.keyId))]
             ELSE r1

applyLock(rs, lock) ==
    IF lock.roomId \notin DOMAIN rs \/ lock.targetRoomId \notin DOMAIN rs THEN rs
    ELSE LET r1  == [rs EXCEPT ![lock.roomId] =
                        SetExit(@, lock.direction, LockedExit(lock.targetRoomId, lock.keyId))]
             rev == getReverseDirection(lock.direction)
         IN  IF HasExit(r1[lock.targetRoomId], rev)
             THEN [r1 EXCEPT ![lock.targetRoomId] =
                      SetExit(@, rev, LockedExit(lock.roomId, lock.keyId))]
             ELSE r1

\* placeKey's candidate rooms
KeyCandidates(rs, lock) ==
    LET far == {id \in DOMAIN rs :
                  /\ rs[id].position # NullPos /\ rs[lock.roomId].position # NullPos
                  /\ Distance(rs[id].position, rs[lock.roomId].position) >= MIN_KEY_DISTANCE}
    IN  IF far = {} THEN DOMAIN rs \ {lock.roomId} ELSE far

KeyItem(lock) == [id |-> lock.keyId, type |-> "key", unlocks |-> <<lock.roomId, lock.direction>>]

\* a placement that puts the key in no room
placeKeyNowhere(rs, lock, keyRoomId) == rs

placeKey(rs, lock, keyRoomId) ==
    [rs EXCEPT ![keyRoomId].items = Append(@, KeyItem(lock))]

(***************************************************************************)
(* Graph queries used by the properties.                                   *)
(***************************************************************************)
Neighbours(rs, id) == {rs[id].exits[d].to : d \in {e \in DirSet : HasExit(rs[id], e)}}

RECURSIVE ReachableFrom(_, _)
ReachableFrom(rs, seen) ==
    LET more == seen \cup UNION {Neighbours(rs, id) : id \in seen}
    IN  IF more = seen THEN seen ELSE ReachableFrom(rs, more)

genVars == <<phase, rooms, locks, lockCount, lockIter>>

engineVars == <<players, gameState, ghosts, spawnTimers, now>>

sessionVars == <<socketState, sessions, characterTimers, idleTimers>>

vars == <<phase, rooms, locks, lockCount, lockIter,
          players, gameState, ghosts, spawnTimers, now,
          socketState, sessions, characterTimers, idleTimers, files, pc, autosaveTimer,
          timeouts, lastActivity, writes>>

asyncVars == <<timeouts, lastActivity, writes>>

loopVars == <<pc, autosaveTimer, asyncVars>>

\* the event loop between two callbacks
Idle == [op |-> "idle", sessionId |-> "none", step |-> 0]

\* an event loop that starts a callback while another is on the stack
dispatchAnytime == TRUE

\* Node's event loop takes the next callback (a socket event, a timer) only
\* when no callback is on the stack
dispatch == pc = Idle

\* an empty Map or object
EmptyMap == [x \in {} |-> 0]

SocketTable == <<"socket_1", "socket_2", "socket_3", "socket_4">>

\* the socket ids that connect
SessionIds == {SocketTable[i] : i \in 1..MaxSessions}

\* no timeout is pending in the event loop and no write is in flight
NoAsync ==
    /\ timeouts = {}
    /\ lastActivity = [x \in {} |-> 0]
    /\ writes = <<>>

\* no socket has connected, nobody is logged in, no timer is pending
SessionIdle ==
    /\ socketState = [s \in SessionIds |-> "new"]
    /\ sessions = EmptyMap
    /\ characterTimers = {}
    /\ idleTimers = {}

NoError == [kind |-> "none", item |-> "none"]

NoGameState == [players |-> EmptyMap, characterLocks |-> EmptyMap, roomStates |-> EmptyMap,
                ghostLocations |-> EmptyMap]

\* a data/world.json that does not exist
NoFile == [kind |-> "ENOENT", rooms |-> EmptyMap]

\* a data/game-state.json that does not exist, and one that is not JSON
NoStateFile == [kind |-> "ENOENT", state |-> EmptyMap]

CorruptStateFile == [kind |-> "corrupt", state |-> EmptyMap]

\* JSON.stringify leaves out the properties whose value is undefined
dropUndefined(f) == [k \in {x \in DOMAIN f : f[x] # "undefined"} |-> f[k]]

stringifyPlayer(player) ==
    IF player.characterName = "undefined"
    THEN [k \in DOMAIN player \ {"characterName"} |-> player[k]]
    ELSE player

\* a serialisation that writes no character locks
JSONstringifyNoLocks(gs, lastSaved) ==
    [version |-> "1.0.0", lastSaved |-> lastSaved,
     players |-> [s \in DOMAIN gs.players |-> stringifyPlayer(gs.players[s])],
     characterLocks |-> EmptyMap,
     roomStates |-> [id \in DOMAIN gs.roomStates |->
                        [gs.roomStates[id] EXCEPT !.objectStates = dropUndefined(@)]],
     ghostLocations |-> gs.ghostLocations]

\* JSON.stringify(state) after saveState has set state.lastSaved
JSONstringify(gs, lastSaved) ==
    [version |-> "1.0.0", lastSaved |-> lastSaved,
     players |-> [s \in DOMAIN gs.players |-> stringifyPlayer(gs.players[s])],
     characterLocks |-> gs.characterLocks,
     roomStates |-> [id \in DOMAIN gs.roomStates |->
                        [gs.roomStates[id] EXCEPT !.objectStates = dropUndefined(@)]],
     ghostLocations |-> gs.ghostLocations]

\* JSON.parse of the text of a saved state
JSONparse(doc) ==
    [players |-> doc.players, characterLocks |-> doc.characterLocks,
     roomStates |-> doc.roomStates, ghostLocations |-> doc.ghostLocations]

\* a data/game-state.json that holds a saved game state
SavedState(gs) == [kind |-> "json", state |-> JSONstringify(gs, now)]

\* a saveState that lets the error of a failed write escape
saveStateThrowing(fs, state, writeOk) ==
    [thrown |-> ~writeOk, gameState |-> state,
     files |-> IF writeOk THEN [fs EXCEPT !.state = SavedState(state)] ELSE fs]

\* StateManager.saveState: the write succeeds or fails; a failure is logged
\* and the call returns normally
saveState(fs, state, writeOk) ==
    [thrown |-> FALSE, gameState |-> state,
     files |-> IF writeOk THEN [fs EXCEPT !.state = SavedState(state)] ELSE fs]

\* the engine before GameEngine.initialize: no players, no state, no ghosts
EngineIdle ==
    /\ players = EmptyMap
    /\ gameState = NoGameState
    /\ ghosts = <<>>
    /\ spawnTimers = EmptyMap
    /\ now = 0
    /\ SessionIdle

(***************************************************************************)
(* SpecGen: MapGenerator.generate, one action per call of generate().      *)
(***************************************************************************)
InitGen ==
    /\ NoAsync
    /\ phase = "assigned"
    /\ \E t \in TargetAssignments(ROOM_COUNT) :
           rooms = [id \in 0..(ROOM_COUNT - 1) |-> createRoom(t[id])]
    /\ locks = <<>>
    /\ lockCount = -1
    /\ lockIter = 0
    /\ EngineIdle
    /\ files = [world |-> NoFile, state |-> NoStateFile]
    /\ pc = Idle
    /\ autosaveTimer = FALSE

ConnectRooms ==
    /\ phase = "assigned"
    /\ rooms' = connectRooms(rooms, ROOM_COUNT)
    /\ phase' = "connected"
    /\ UNCHANGED <<locks, lockCount, lockIter>>
    /\ UNCHANGED <<engineVars, sessionVars, files, loopVars>>

EnsureReachability ==
    /\ phase = "connected"
    /\ rooms' = ensureReachability(rooms, ROOM_COUNT)
    /\ phase' = "generated"
    /\ UNCHANGED <<locks, lockCount, lockIter>>
    /\ UNCHANGED <<engineVars, sessionVars, files, loopVars>>

NextGen == ConnectRooms \/ EnsureReachability

SpecGen == InitGen /\ [][NextGen]_vars

\* C1: generate() returns exactly ROOM_COUNT rooms, all reachable from room_0
C1_AllReachable ==
    phase = "generated" =>
        /\ DOMAIN rooms = 0..(ROOM_COUNT - 1)
        /\ Cardinality(DOMAIN rooms) = ROOM_COUNT
        /\ ReachableFrom(rooms, {0}) = DOMAIN rooms

\* the repair pass connected a room beyond its target exit count
C1_Witness ==
    /\ phase = "generated"
    /\ \E id \in DOMAIN rooms : NumExits(rooms[id]) > rooms[id].targetExits
    /\ ReachableFrom(rooms, {0}) = DOMAIN rooms

(***************************************************************************)
(* SpecWorld: StateManager.generateProceduralWorld on WORLD_ROOMS rooms:   *)
(* the map, the gold and the items are drawn in the initial state, then   *)
(* addLocksAndKeys runs one loop iteration at a time.                      *)
(***************************************************************************)
\* the draws of GoldDistributor.distribute and of ItemGenerator's shuffle
\* that the world runs start from
GoldDraws(ids) ==
    { [id \in ids |-> MIN_GOLD],
      [id \in ids |-> IF id % 2 = 0 THEN MAX_GOLD ELSE MIN_GOLD] }

ItemShuffles(ids, k) ==
    {q \in ShufflePrefixes(ids, k) : \A i \in 1..k : q[i] = i - 1 \/ q[i] = Cardinality(ids) - i}

\* generateProceduralWorld up to the call of addLocksAndKeys
WorldsBeforeLocks(n) ==
    LET pool == generateItemPool(n \div ITEMS_PER_ROOM_RATIO)
    IN  { placeItems(distributeGold(generate(n, t), g), pool, q, 1) :
            t \in TargetAssignments(n), g \in GoldDraws(0..(n - 1)),
            q \in ItemShuffles(0..(n - 1), Len(pool)) }

InitWorld ==
    /\ NoAsync
    /\ phase = "items"
    /\ rooms \in WorldsBeforeLocks(WORLD_ROOMS)
    /\ locks = <<>>
    /\ lockCount = -1
    /\ lockIter = 0
    /\ EngineIdle
    /\ files = [world |-> NoFile, state |-> NoStateFile]
    /\ pc = Idle
    /\ autosaveTimer = FALSE

\* addLocksAndKeys up to its loop: the lock count is drawn
AddLocksAndKeys ==
    /\ phase = "items"
    /\ \E n \in MIN_LOCKS..MAX_LOCKS : lockCount' = n
    /\ lockIter' = 0
    /\ phase' = "locking"
    /\ UNCHANGED <<rooms, locks>>
    /\ UNCHANGED <<engineVars, sessionVars, files, loopVars>>

\* one iteration of addLocksAndKeys' loop
AddLockIteration ==
    /\ phase = "locking"
    /\ lockIter < lockCount
    /\ \E lock \in createLock(rooms, locks) :
          IF lock = NullLock
          THEN UNCHANGED <<rooms, locks>>
          ELSE /\ locks' = Append(locks, lock)
               /\ LET applied == applyLock(rooms, lock)
                  IN  IF KeyCandidates(applied, lock) = {}
                      THEN rooms' = applied
                      ELSE \E keyRoomId \in KeyCandidates(applied, lock) :
                               rooms' = placeKey(applied, lock, keyRoomId)
    /\ lockIter' = lockIter + 1
    /\ UNCHANGED <<phase, lockCount>>
    /\ UNCHANGED <<engineVars, sessionVars, files, loopVars>>

\* the loop ends: addLocksAndKeys returns
LocksDone ==
    /\ phase = "locking"
    /\ lockIter >= lockCount
    /\ phase' = "world"
    /\ UNCHANGED <<rooms, locks, lockCount, lockIter>>
    /\ UNCHANGED <<engineVars, sessionVars, files, loopVars>>

NextWorld ==
    \/ AddLocksAndKeys
    \/ AddLockIteration
    \/ LocksDone

SpecWorld == InitWorld /\ [][NextWorld]_vars

AllItems(rs) == UNION { {<<id, i>> : i \in 1..Len(rs[id].items)} : id \in DOMAIN rs }

\* the mirror of exit (id, d): the opposite direction in the destination room
Mirror(rs, id, d) == rs[rs[id].exits[d].to].exits[getReverseDirection(d)]

MirrorLocked(rs) ==
    \A id \in DOMAIN rs : \A d \in DirSet :
        rs[id].exits[d].type = "locked" =>
            /\ Mirror(rs, id, d).type = "locked"
            /\ Mirror(rs, id, d).keyRequired = rs[id].exits[d].keyRequired
            /\ Mirror(rs, id, d).requiredItem = rs[id].exits[d].requiredItem

\* C10: after addLocksAndKeys every lock has exactly one key item, with the
\* lock's key id and its room and direction; key ids are distinct between
\* locks; every locked exit carries the key id of one lock
C10_OneKeyPerLock ==
    phase = "world" =>
        /\ \A i \in 1..Len(locks) :
               /\ Cardinality({p \in AllItems(rooms) :
                      rooms[p[1]].items[p[2]].id = locks[i].keyId}) = 1
               /\ \A p \in AllItems(rooms) :
                      rooms[p[1]].items[p[2]].id = locks[i].keyId =>
                          /\ rooms[p[1]].items[p[2]].type = "key"
                          /\ rooms[p[1]].items[p[2]].unlocks = <<locks[i].roomId, locks[i].direction>>
               /\ rooms[locks[i].roomId].exits[locks[i].direction].type = "locked"
               /\ rooms[locks[i].roomId].exits[locks[i].direction].keyRequired = locks[i].keyId
        /\ \A i, j \in 1..Len(locks) : i # j => locks[i].keyId # locks[j].keyId
        /\ \A id \in DOMAIN rooms : \A d \in DirSet :
               rooms[id].exits[d].type = "locked" =>
                   \E i \in 1..Len(locks) : rooms[id].exits[d].keyRequired = locks[i].keyId

C10_Witness ==
    /\ phase = "world"
    /\ Len(locks) = MAX_LOCKS
    /\ \E id \in DOMAIN rooms : Len(rooms[id].items) >= 2

(***************************************************************************)
(* The running engine: GameEngine over a world and a game state.           *)
(***************************************************************************)
Usernames == {"alice"}

CharacterTable == <<"char_1", "char_2", "char_3", "char_4">>

\* characterData.characters
characters == [i \in 1..NumCharacters |-> [id |-> CharacterTable[i], name |-> CharacterTable[i]]]

\* the character ids a client can send: the known ones and an unknown one
CharacterInputs == {characters[i].id : i \in DOMAIN characters} \cup {"char_0"}

GhostTable == <<"ghost_0", "ghost_1", "ghost_2", "ghost_3", "ghost_4">>

Put(f, k, v) == [x \in DOMAIN f \cup {k} |-> IF x = k THEN v ELSE f[x]]

Del(f, k) == [x \in DOMAIN f \ {k} |-> f[x]]

\* String.toLowerCase on the object names that occur
Lower(name) ==
    CASE name = "WOODEN CHEST" -> "wooden chest"
      [] name = "Wooden Chest" -> "wooden chest"
      [] name = "Hook" -> "hook"
      [] OTHER -> name

ObjectNames == {"chest", "WOODEN CHEST", "hook"}

Verbs == {"open", "push"}

\* world data of the form interactWithObject reads: an object that gives an
\* item (and coins) once, when it is opened
GivingObject(id, name, item, coins) ==
    [id |-> id, name |-> name, state |-> "closed",
     interactions |-> [v \in {"open"} |->
         [validStates |-> {"closed"}, newState |-> "open", giveItem |-> item,
          spawnCoins |-> coins]]]

\* world data of the form isExitLocked reads: an exit locked on requiredItem
ItemLockedExit(dest, item) == [to |-> dest, type |-> "locked", keyRequired |-> "undefined",
                              requiredItem |-> item]

\* the exit (id, d) and its mirror locked on an item
lockOnItem(rs, id, d, item) ==
    LET dest == rs[id].exits[d].to
        r1   == [rs EXCEPT ![id] = SetExit(@, d, ItemLockedExit(dest, item))]
    IN  [r1 EXCEPT ![dest] = SetExit(@, getReverseDirection(d), ItemLockedExit(id, item))]

\* the gold draw of the engine worlds: StartGold in the starting room
EngineGoldDraw(ids) == [id \in ids |-> IF id = 0 THEN StartGold ELSE MIN_GOLD]

\* the lock list and the rooms of generateProceduralWorld when addLocksAndKeys
\* draws one lock, on the first exit of the starting room
ProceduralWorld(n) ==
    LET t     == CHOOSE x \in TargetAssignments(n) : TRUE
        pool  == generateItemPool(n \div ITEMS_PER_ROOM_RATIO)
        q     == CHOOSE x \in ItemShuffles(0..(n - 1), Len(pool)) : TRUE
        base  == placeItems(distributeGold(generate(n, t), EngineGoldDraw(0..(n - 1))), pool, q, 1)
        lock  == CHOOSE l \in createLock(base, <<>>) :
                     l.roomId = 0 /\ l.direction = base[0].exitOrder[Len(base[0].exitOrder)]
        lckd  == applyLock(base, lock)
        keyAt == CHOOSE id \in KeyCandidates(lckd, lock) : TRUE
    IN  [rooms |-> placeKey(lckd, lock, keyAt), locks |-> <<lock>>]

\* that world with an object in the starting room that gives the key of the
\* lock
HookWorld(n) ==
    LET w == ProceduralWorld(n)
    IN  [rooms |-> [w.rooms EXCEPT ![0].objects =
                       <<GivingObject("hook", "Hook", w.locks[1].keyId, 0)>>],
         locks |-> w.locks]

\* that world with the other exit of the starting room locked on an item and
\* an object in the starting room that gives the item
ChestWorld(n) ==
    LET w  == ProceduralWorld(n)
        r1 == [w.rooms EXCEPT ![0].objects =
                  <<GivingObject("chest", "Wooden Chest", "brass_key", 1)>>]
    IN  [rooms |-> lockOnItem(r1, 0, r1[0].exitOrder[1], "brass_key"), locks |-> w.locks]

EngineWorlds == {HookWorld(ENGINE_ROOMS), ChestWorld(ENGINE_ROOMS)}

startingRoom == 0

\* createInitialState over the rooms of a world
createInitialState(worldRooms) ==
    [players |-> EmptyMap, characterLocks |-> EmptyMap,
     roomStates |-> [id \in DOMAIN worldRooms |->
         [coins |-> worldRooms[id].coins.amount,
          objectStates |-> [o \in {worldRooms[id].objects[i].id : i \in DOMAIN worldRooms[id].objects}
                              |-> (CHOOSE ob \in SeqToSet(worldRooms[id].objects) : ob.id = o).state],
          lastCoinSpawn |-> -1]],
     ghostLocations |-> EmptyMap]

createGhost(index, startRoom) ==
    [id |-> GhostTable[index + 1], currentRoom |-> startRoom, movesSinceSpawn |-> 0]

\* GhostManager.initialize: every ghost count and every start room
GhostDraws(rs) ==
    UNION { {[i \in 1..k |-> createGhost(i - 1, at[i])] : at \in [1..k -> DOMAIN rs]}
            : k \in MIN_GHOSTS..MAX_GHOSTS }

getAllLocations(gs) == [gid \in {gs[i].id : i \in DOMAIN gs} |->
                           (CHOOSE g \in SeqToSet(gs) : g.id = gid).currentRoom]

\* the server after initializeServer, the game state matching the world
Init ==
    /\ NoAsync
    /\ phase = "running"
    /\ \E w \in EngineWorlds :
          /\ rooms = w.rooms
          /\ locks = w.locks
          /\ lockCount = Len(w.locks)
          /\ lockIter = Len(w.locks)
          /\ \E g \in GhostDraws(w.rooms) :
                /\ ghosts = g
                /\ gameState = [createInitialState(w.rooms) EXCEPT
                                   !.ghostLocations = getAllLocations(g)]
    /\ players = EmptyMap
    /\ spawnTimers = EmptyMap
    /\ now = 0
    /\ SessionIdle
    /\ files = [world |-> NoFile, state |-> SavedState(createInitialState(rooms))]
    /\ pc = Idle
    /\ autosaveTimer = TRUE

(***************************************************************************)
(* GameEngine's operations.  Each operator is one call: it yields what the *)
(* call returns and the state the call leaves.                             *)
(***************************************************************************)
Err(kind) == [kind |-> kind, item |-> "none"]

\* a call that returns a failure and has changed nothing
Fail(error) ==
    [success |-> FALSE, error |-> error, players |-> players, gameState |-> gameState,
     rooms |-> rooms, spawnTimers |-> spawnTimers, encounter |-> "none"]

\* a call that dereferences a room state that does not exist: it throws, and
\* what it wrote before stays written
Throw(ps, gs, rs) ==
    [success |-> FALSE, error |-> Err("TypeError"), players |-> ps, gameState |-> gs,
     rooms |-> rs, spawnTimers |-> spawnTimers, encounter |-> "none"]

\* a call that succeeds; the player object is shared by engine.players and
\* gameState.players
Done(sessionId, player, gs, rs, timers, encounter) ==
    [success |-> TRUE, error |-> NoError, players |-> Put(players, sessionId, player),
     gameState |-> [gs EXCEPT !.players = Put(@, sessionId, player)],
     rooms |-> rs, spawnTimers |-> timers, encounter |-> encounter]

\* an addPlayer that does not look at the character locks
addPlayerNoLockCheck(sessionId, username, characterId) ==
    IF ~\E i \in DOMAIN characters : characters[i].id = characterId
    THEN Fail(Err("Invalid character"))
    ELSE LET player == [sessionId |-> sessionId, username |-> username,
                        characterId |-> characterId, characterName |-> characterId,
                        currentRoom |-> startingRoom,
                        inventory |-> [gold |-> 0, items |-> <<>>],
                        status |-> "active", connectedAt |-> now, lastAction |-> now]
             lock == [sessionId |-> sessionId, username |-> username, lockedAt |-> now]
         IN  Done(sessionId, player,
                  [gameState EXCEPT !.characterLocks = Put(@, characterId, lock)],
                  rooms, spawnTimers, "none")

addPlayer(sessionId, username, characterId) ==
    IF ~\E i \in DOMAIN characters : characters[i].id = characterId
    THEN Fail(Err("Invalid character"))
    ELSE IF characterId \in DOMAIN gameState.characterLocks
    THEN Fail(Err("Character already in use"))
    ELSE LET character == characters[CHOOSE i \in DOMAIN characters : characters[i].id = characterId]
             player == [sessionId |-> sessionId, username |-> username,
                        characterId |-> characterId, characterName |-> character.name,
                        currentRoom |-> startingRoom,
                        inventory |-> [gold |-> 0, items |-> <<>>],
                        status |-> "active", connectedAt |-> now, lastAction |-> now]
             lock == [sessionId |-> sessionId, username |-> username, lockedAt |-> now]
         IN  Done(sessionId, player,
                  [gameState EXCEPT !.characterLocks = Put(@, characterId, lock)],
                  rooms, spawnTimers, "none")

\* a removePlayer that leaves the character lock
removePlayerKeepingLock(sessionId) ==
    IF sessionId \notin DOMAIN players THEN Fail(NoError)
    ELSE [success |-> TRUE, error |-> NoError, players |-> Del(players, sessionId),
          gameState |-> [gameState EXCEPT !.players = Del(@, sessionId)],
          rooms |-> rooms, spawnTimers |-> spawnTimers, encounter |-> "none"]

\* removePlayer returns nothing; success tells whether the player existed
removePlayer(sessionId) ==
    IF sessionId \notin DOMAIN players THEN Fail(NoError)
    ELSE [success |-> TRUE, error |-> NoError, players |-> Del(players, sessionId),
          gameState |-> [gameState EXCEPT
                            !.characterLocks = Del(@, players[sessionId].characterId),
                            !.players = Del(@, sessionId)],
          rooms |-> rooms, spawnTimers |-> spawnTimers, encounter |-> "none"]

\* RoomUtils.isExitLocked; the reason of a locked exit is the text
\* "This exit is locked. You need a <requiredItem> to unlock it."
isExitLocked(room, direction, inventory) ==
    IF ~HasExit(room, direction)
    THEN [locked |-> TRUE, canUnlock |-> FALSE, requiredItem |-> "undefined",
          reason |-> Err("No exit in that direction")]
    ELSE IF room.exits[direction].type = "locked"
    THEN LET requiredItem == room.exits[direction].requiredItem
         IN  IF \E i \in DOMAIN inventory.items : inventory.items[i] = requiredItem
             THEN [locked |-> TRUE, canUnlock |-> TRUE, requiredItem |-> requiredItem,
                   reason |-> NoError]
             ELSE [locked |-> TRUE, canUnlock |-> FALSE, requiredItem |-> requiredItem,
                   reason |-> [kind |-> "This exit is locked", item |-> requiredItem]]
    ELSE [locked |-> FALSE, canUnlock |-> FALSE, requiredItem |-> "undefined",
          reason |-> NoError]

\* Math.max(1, Math.floor(gold * lossPercent)), the percentage in thousandths
\* a loss that is the floor alone
goldLostAtFloorOnly(gold, lossPermille) ==
    (gold * lossPermille) \div 1000

goldLostAt(gold, lossPermille) ==
    LET part == (gold * lossPermille) \div 1000
    IN  IF part > 1 THEN part ELSE 1

\* the loss percentages drawn: both ends of [MIN_GOLD_LOSS, MAX_GOLD_LOSS)
LossDraws == {MIN_GOLD_LOSS, MAX_GOLD_LOSS - 1}

\* an encounter that takes one coin more and does not stop at 0
processEncounterOverdrawn(player, lossPermille) ==
    IF player.inventory.gold = 0
    THEN [type |-> "encounter_no_gold", player |-> player, goldLost |-> 0]
    ELSE LET goldLost == goldLostAt(player.inventory.gold, lossPermille) + 1
             after    == [player EXCEPT !.inventory.gold = @ - goldLost]
         IN  [type |-> "encounter", player |-> after, goldLost |-> goldLost,
              goldRemaining |-> after.inventory.gold]

processEncounter(player, lossPermille) ==
    IF player.inventory.gold = 0
    THEN [type |-> "encounter_no_gold", player |-> player, goldLost |-> 0]
    ELSE LET goldLost == goldLostAt(player.inventory.gold, lossPermille)
             left     == player.inventory.gold - goldLost
             after    == [player EXCEPT !.inventory.gold = IF left > 0 THEN left ELSE 0]
         IN  [type |-> "encounter", player |-> after, goldLost |-> goldLost,
              goldRemaining |-> after.inventory.gold]

\* an encounter check that does not look where the ghosts are
checkEncounterAnywhere(player, roomId, roll, lossPermille) ==
    IF roll THEN [type |-> "observation", player |-> player]
    ELSE processEncounter(player, lossPermille)

\* GhostManager.checkEncounter; roll is the outcome of Math.random() > ENCOUNTER_CHANCE
checkEncounter(player, roomId, roll, lossPermille) ==
    IF ~\E i \in DOMAIN ghosts : ghosts[i].currentRoom = roomId
    THEN [type |-> "null", player |-> player]
    ELSE IF roll THEN [type |-> "observation", player |-> player]
    ELSE processEncounter(player, lossPermille)

\* a move that uses the key up: the item that unlocked the exit leaves the
\* inventory
movePlayerConsumingKey(sessionId, direction, roll, lossPermille) ==
    IF sessionId \notin DOMAIN players THEN Fail(Err("Player not found"))
    ELSE LET player      == players[sessionId]
             currentRoom == rooms[player.currentRoom]
         IN  IF ~HasExit(currentRoom, direction) THEN Fail(Err("You can't go"))
             ELSE LET lockStatus == isExitLocked(currentRoom, direction, player.inventory)
                  IN  IF lockStatus.locked /\ ~lockStatus.canUnlock
                      THEN Fail(lockStatus.reason)
                      ELSE LET rs == IF lockStatus.locked
                                     THEN [rooms EXCEPT
                                              ![player.currentRoom].exits[direction].type = "open"]
                                     ELSE rooms
                               kept  == IF lockStatus.locked
                                        THEN SelectSeq(player.inventory.items,
                                                 LAMBDA item : item # lockStatus.requiredItem)
                                        ELSE player.inventory.items
                               dest  == currentRoom.exits[direction].to
                               moved == [player EXCEPT !.currentRoom = dest, !.lastAction = now,
                                                       !.inventory.items = kept]
                               enc   == checkEncounter(moved, dest, roll, lossPermille)
                           IN  Done(sessionId, enc.player, gameState, rs, spawnTimers, enc.type)

\* a move that opens nothing but the exit object it went through
movePlayer(sessionId, direction, roll, lossPermille) ==
    IF sessionId \notin DOMAIN players THEN Fail(Err("Player not found"))
    ELSE IF players[sessionId].currentRoom \notin DOMAIN rooms
    THEN Fail(Err("Current room not found"))
    ELSE LET player      == players[sessionId]
             currentRoom == rooms[player.currentRoom]
         IN  IF ~HasExit(currentRoom, direction) THEN Fail(Err("You can't go"))
             ELSE LET lockStatus == isExitLocked(currentRoom, direction, player.inventory)
                  IN  IF lockStatus.locked /\ ~lockStatus.canUnlock
                      THEN Fail(lockStatus.reason)
                      ELSE LET rs == IF lockStatus.locked
                                     THEN [rooms EXCEPT
                                              ![player.currentRoom].exits[direction].type = "open"]
                                     ELSE rooms
                               dest  == currentRoom.exits[direction].to
                               moved == [player EXCEPT !.currentRoom = dest, !.lastAction = now]
                               enc   == checkEncounter(moved, dest, roll, lossPermille)
                           IN  IF dest \notin DOMAIN gameState.roomStates
                               THEN Throw(Put(players, sessionId, moved),
                                          [gameState EXCEPT !.players = Put(@, sessionId, moved)],
                                          rs)
                               ELSE Done(sessionId, enc.player, gameState, rs, spawnTimers,
                                         enc.type)

\* verbs.json: the action verbs, and the verbs a client can send
actionVerbs == {"wave"}

ActionInputs == actionVerbs \cup {"fly"}

Messages == {"hello"}

\* a say that answers a session without a player with success
sayToNobody(sessionId, message) ==
    IF sessionId \notin DOMAIN players
    THEN [Fail(Err("Player not found")) EXCEPT !.success = TRUE]
    ELSE Done(sessionId, [players[sessionId] EXCEPT !.lastAction = now],
              gameState, rooms, spawnTimers, "none")

\* GameEngine.say: the broadcast leaves no state, lastAction is set
say(sessionId, message) ==
    IF sessionId \notin DOMAIN players THEN Fail(Err("Player not found"))
    ELSE Done(sessionId, [players[sessionId] EXCEPT !.lastAction = now],
              gameState, rooms, spawnTimers, "none")

\* an action handler that accepts every verb
performActionAnyVerb(sessionId, verb) ==
    IF sessionId \notin DOMAIN players THEN Fail(Err("Player not found"))
    ELSE Done(sessionId, [players[sessionId] EXCEPT !.lastAction = now],
              gameState, rooms, spawnTimers, "none")

\* GameEngine.performAction
performAction(sessionId, verb) ==
    IF sessionId \notin DOMAIN players THEN Fail(Err("Player not found"))
    ELSE IF verb \notin actionVerbs THEN Fail(Err("Unknown action"))
    ELSE Done(sessionId, [players[sessionId] EXCEPT !.lastAction = now],
              gameState, rooms, spawnTimers, "none")

\* RoomUtils.findObject: the index of the first object whose name or id
\* matches without regard to case, 0 when there is none
findObject(room, objectName) ==
    LET hits == {i \in DOMAIN room.objects :
                    \/ Lower(room.objects[i].name) = Lower(objectName)
                    \/ Lower(room.objects[i].id) = Lower(objectName)}
    IN  IF hits = {} THEN 0 ELSE CHOOSE i \in hits : \A j \in hits : i <= j

\* a check that accepts a defined verb in any state of the object
canInteractWithAnyState(object, verb, currentState) ==
    IF verb \notin DOMAIN object.interactions
    THEN [valid |-> FALSE, message |-> Err("You can't do that")]
    ELSE [valid |-> TRUE, message |-> NoError]

\* RoomUtils.canInteractWith
canInteractWith(object, verb, currentState) ==
    IF verb \notin DOMAIN object.interactions
    THEN [valid |-> FALSE, message |-> Err("You can't do that")]
    ELSE IF /\ object.interactions[verb].validStates # {}
            /\ currentState \notin object.interactions[verb].validStates
    THEN [valid |-> FALSE, message |-> Err("You can't do that right now")]
    ELSE [valid |-> TRUE, message |-> NoError]

interactWithObject(sessionId, verb, objectName) ==
    IF sessionId \notin DOMAIN players THEN Fail(Err("Player not found"))
    ELSE LET player == players[sessionId]
             roomId == player.currentRoom
             at     == findObject(rooms[roomId], objectName)
         IN  IF at = 0 THEN Fail(Err("There is no such object here"))
             ELSE IF roomId \notin DOMAIN gameState.roomStates
             THEN Throw(players, gameState, rooms)
             ELSE LET object       == rooms[roomId].objects[at]
                      roomState    == gameState.roomStates[roomId]
                      currentState == IF object.id \in DOMAIN roomState.objectStates
                                      THEN roomState.objectStates[object.id]
                                      ELSE object.state
                      check        == canInteractWith(object, verb, currentState)
                  IN  IF ~check.valid THEN Fail(check.message)
                      ELSE LET interaction == object.interactions[verb]
                               states == IF interaction.newState # "undefined"
                                         THEN Put(roomState.objectStates, object.id,
                                                  interaction.newState)
                                         ELSE roomState.objectStates
                               items  == IF interaction.giveItem # "undefined"
                                         THEN Append(player.inventory.items, interaction.giveItem)
                                         ELSE player.inventory.items
                           IN  Done(sessionId,
                                    [player EXCEPT !.inventory.items = items,
                                                   !.lastAction = now],
                                    [gameState EXCEPT
                                        !.roomStates[roomId].objectStates = states,
                                        !.roomStates[roomId].coins = @ + interaction.spawnCoins],
                                    rooms, spawnTimers, "none")

\* CoinSpawner.startRespawnTimer without a custom delay
startRespawnTimer(timers, roomId, config) ==
    Put(timers, roomId,
        [startedAt |-> now,
         delay |-> IF config.respawnInterval # 0 THEN config.respawnInterval
                   ELSE DEFAULT_RESPAWN_INTERVAL,
         amount |-> config.amount])

\* a collection that records the collection time before it looks at the coins
collectCoinsMarkingFirst(sessionId) ==
    IF sessionId \notin DOMAIN players THEN Fail(Err("Player not found"))
    ELSE LET player == players[sessionId]
             roomId == player.currentRoom
         IN  IF roomId \notin DOMAIN gameState.roomStates THEN Throw(players, gameState, rooms)
             ELSE LET coinCount == gameState.roomStates[roomId].coins
                      marked    == [gameState EXCEPT !.roomStates[roomId].lastCoinSpawn = now]
                  IN  IF coinCount = 0
                      THEN [Fail(Err("There are no coins to collect here"))
                               EXCEPT !.gameState = marked]
                      ELSE Done(sessionId,
                                [player EXCEPT !.inventory.gold = @ + coinCount,
                                               !.lastAction = now],
                                [marked EXCEPT !.roomStates[roomId].coins = 0],
                                rooms,
                                IF rooms[roomId].coins.spawnType = "respawn-timer"
                                THEN startRespawnTimer(spawnTimers, roomId, rooms[roomId].coins)
                                ELSE spawnTimers,
                                "none")

collectCoins(sessionId) ==
    IF sessionId \notin DOMAIN players THEN Fail(Err("Player not found"))
    ELSE LET player == players[sessionId]
             roomId == player.currentRoom
         IN  IF roomId \notin DOMAIN gameState.roomStates THEN Throw(players, gameState, rooms)
             ELSE LET coinCount == gameState.roomStates[roomId].coins
                  IN  IF coinCount = 0 THEN Fail(Err("There are no coins to collect here"))
                      ELSE Done(sessionId,
                                [player EXCEPT !.inventory.gold = @ + coinCount,
                                               !.lastAction = now],
                                [gameState EXCEPT !.roomStates[roomId].coins = 0,
                                                  !.roomStates[roomId].lastCoinSpawn = now],
                                rooms,
                                IF rooms[roomId].coins.spawnType = "respawn-timer"
                                THEN startRespawnTimer(spawnTimers, roomId, rooms[roomId].coins)
                                ELSE spawnTimers,
                                "none")

\* a drop that leaves the player's gold where it was
dropCoinsKeepingGold(sessionId) ==
    IF sessionId \notin DOMAIN players THEN Fail(Err("Player not found"))
    ELSE LET player    == players[sessionId]
             roomId    == player.currentRoom
             coinCount == player.inventory.gold
         IN  IF coinCount = 0 THEN Fail(Err("You have no coins to drop"))
             ELSE IF roomId \notin DOMAIN gameState.roomStates
             THEN Throw(players, gameState, rooms)
             ELSE Done(sessionId,
                       [player EXCEPT !.lastAction = now],
                       [gameState EXCEPT !.roomStates[roomId].coins = @ + coinCount],
                       rooms, spawnTimers, "none")

dropCoins(sessionId) ==
    IF sessionId \notin DOMAIN players THEN Fail(Err("Player not found"))
    ELSE LET player    == players[sessionId]
             roomId    == player.currentRoom
             coinCount == player.inventory.gold
         IN  IF coinCount = 0 THEN Fail(Err("You have no coins to drop"))
             ELSE IF roomId \notin DOMAIN gameState.roomStates
             THEN Throw(players, gameState, rooms)
             ELSE Done(sessionId,
                       [player EXCEPT !.inventory.gold = 0, !.lastAction = now],
                       [gameState EXCEPT !.roomStates[roomId].coins = @ + coinCount],
                       rooms, spawnTimers, "none")

\* a ghost that takes any exit, locked or not
moveGhostThroughLocks(ghost) ==
    LET exits == {d \in DirSet : HasExit(rooms[ghost.currentRoom], d)}
    IN  IF exits = {} THEN {ghost}
        ELSE {[ghost EXCEPT !.currentRoom = rooms[ghost.currentRoom].exits[d].to,
                            !.movesSinceSpawn = @ + 1] : d \in exits}

\* GhostManager.moveGhost: every place one ghost can be after its move
moveGhost(ghost) ==
    LET exits == {d \in DirSet : /\ HasExit(rooms[ghost.currentRoom], d)
                                 /\ rooms[ghost.currentRoom].exits[d].type # "locked"}
    IN  IF exits = {} THEN {ghost}
        ELSE {[ghost EXCEPT !.currentRoom = rooms[ghost.currentRoom].exits[d].to,
                            !.movesSinceSpawn = @ + 1] : d \in exits}

\* GhostManager.moveAllGhosts: every outcome of moving the ghosts from i on
RECURSIVE moveAllGhosts(_)
moveAllGhosts(i) ==
    IF i > Len(ghosts) THEN {<<>>}
    ELSE {<<g>> \o rest : g \in moveGhost(ghosts[i]), rest \in moveAllGhosts(i + 1)}

(***************************************************************************)
(* Spec: the engine's calls in any order and the ghosts' movement timer.    *)
(***************************************************************************)
\* what a call leaves besides engine.players
Leaves(r) ==
    /\ gameState' = r.gameState
    /\ rooms' = r.rooms
    /\ spawnTimers' = r.spawnTimers
    /\ UNCHANGED <<phase, locks, lockCount, lockIter, ghosts, now, sessionVars, files, loopVars>>

AddPlayer ==
    \E s \in SessionIds, u \in Usernames, c \in CharacterInputs :
        /\ players' = addPlayer(s, u, c).players
        /\ Leaves(addPlayer(s, u, c))

RemovePlayer ==
    \E s \in SessionIds :
        /\ players' = removePlayer(s).players
        /\ Leaves(removePlayer(s))

\* the random numbers a move draws: none unless a ghost is in the room the
\* move leads to, and a loss percentage only when the encounter happens
EncounterDraws(s, d) ==
    IF /\ s \in DOMAIN players
       /\ HasExit(rooms[players[s].currentRoom], d)
       /\ \E i \in DOMAIN ghosts :
              ghosts[i].currentRoom = rooms[players[s].currentRoom].exits[d].to
    THEN {<<TRUE, MIN_GOLD_LOSS>>} \cup {<<FALSE, loss>> : loss \in LossDraws}
    ELSE {<<TRUE, MIN_GOLD_LOSS>>}

MovePlayer ==
    \E s \in SessionIds, d \in DirSet :
        \E draw \in EncounterDraws(s, d) :
            /\ players' = movePlayer(s, d, draw[1], draw[2]).players
            /\ Leaves(movePlayer(s, d, draw[1], draw[2]))

InteractWithObject ==
    \E s \in SessionIds, v \in Verbs, o \in ObjectNames :
        /\ players' = interactWithObject(s, v, o).players
        /\ Leaves(interactWithObject(s, v, o))

CollectCoins ==
    \E s \in SessionIds :
        /\ now < MaxClock
        /\ players' = collectCoins(s).players
        /\ Leaves(collectCoins(s))

DropCoins ==
    \E s \in SessionIds :
        /\ players' = dropCoins(s).players
        /\ Leaves(dropCoins(s))

\* the movement timer fires
Say ==
    \E s \in SessionIds, message \in Messages :
        /\ players' = say(s, message).players
        /\ Leaves(say(s, message))

PerformAction ==
    \E s \in SessionIds, verb \in ActionInputs :
        /\ players' = performAction(s, verb).players
        /\ Leaves(performAction(s, verb))

MoveAllGhosts ==
    /\ \A i \in DOMAIN ghosts : ghosts[i].movesSinceSpawn < MaxGhostMoves
    /\ \E g \in moveAllGhosts(1) :
          /\ ghosts' = g
          /\ gameState' = [gameState EXCEPT !.ghostLocations = getAllLocations(g)]
    /\ UNCHANGED <<files, loopVars, phase, rooms, locks, lockCount, lockIter, players, spawnTimers, now,
                   sessionVars>>

Next ==
    \/ AddPlayer
    \/ RemovePlayer
    \/ MovePlayer
    \/ InteractWithObject
    \/ CollectCoins
    \/ DropCoins
    \/ MoveAllGhosts

Spec == Init /\ [][Next]_vars

(***************************************************************************)
(* Properties of the running engine.                                       *)
(***************************************************************************)
\* the key id a locked exit asks for: the key id LockManager wrote on it, or
\* the item of an item lock
requiredKeyOf(exit) ==
    IF exit.keyRequired # "undefined" THEN exit.keyRequired ELSE exit.requiredItem

holdsItem(player, item) ==
    \E i \in DOMAIN player.inventory.items : player.inventory.items[i] = item

\* every draw a move can make
MoveDraws == {<<TRUE, MIN_GOLD_LOSS>>} \cup {<<FALSE, loss>> : loss \in LossDraws}

knownCharacter(c) == \E i \in DOMAIN characters : characters[i].id = c

\* all the gold there is: in the inventories and on the floors
TotalGold(ps, gs) ==
    LET RECURSIVE sumGold(_)
        sumGold(S) == IF S = {} THEN 0
                      ELSE LET s == CHOOSE x \in S : TRUE
                           IN  ps[s].inventory.gold + sumGold(S \ {s})
        RECURSIVE sumCoins(_)
        sumCoins(S) == IF S = {} THEN 0
                       ELSE LET id == CHOOSE x \in S : TRUE
                            IN  gs.roomStates[id].coins + sumCoins(S \ {id})
    IN  sumGold(DOMAIN ps) + sumCoins(DOMAIN gs.roomStates)

\* C2: a locked exit's mirror is locked with the same key, and a move that
\* unlocks an exit leaves its mirror open too
C2_MirrorLocked ==
    /\ MirrorLocked(rooms)
    /\ \A s \in DOMAIN players : \A d \in DirSet : \A w \in MoveDraws :
           LET from == players[s].currentRoom
               r    == movePlayer(s, d, w[1], w[2])
           IN  (rooms[from].exits[d].type = "locked" /\ r.rooms[from].exits[d].type = "open")
                   => Mirror(r.rooms, from, d).type = "open"

\* C3: addPlayer fails and changes nothing for an unknown or locked character;
\* otherwise the player starts in the starting room with gold 0, no items,
\* status active, and the lock is recorded; no two sessions hold one character
C3_AddPlayer ==
    /\ \A s \in SessionIds : \A u \in Usernames : \A c \in CharacterInputs :
           LET r == addPlayer(s, u, c)
           IN  IF ~knownCharacter(c) \/ c \in DOMAIN gameState.characterLocks
               THEN /\ ~r.success
                    /\ r.players = players /\ r.gameState = gameState
                    /\ r.rooms = rooms /\ r.spawnTimers = spawnTimers
               ELSE /\ r.success
                    /\ s \in DOMAIN r.players
                    /\ r.players[s].characterId = c
                    /\ r.players[s].username = u
                    /\ r.players[s].currentRoom = startingRoom
                    /\ r.players[s].inventory = [gold |-> 0, items |-> <<>>]
                    /\ r.players[s].status = "active"
                    /\ \A o \in DOMAIN players \ {s} :
                           o \in DOMAIN r.players /\ r.players[o] = players[o]
                    /\ c \in DOMAIN r.gameState.characterLocks
                    /\ r.gameState.characterLocks[c].sessionId = s
                    /\ r.gameState.characterLocks[c].username = u
                    /\ \A k \in DOMAIN gameState.characterLocks :
                           /\ k \in DOMAIN r.gameState.characterLocks
                           /\ r.gameState.characterLocks[k] = gameState.characterLocks[k]
    /\ \A s1, s2 \in DOMAIN players :
           s1 # s2 => players[s1].characterId # players[s2].characterId

\* two sessions are in the game, each with its character locked to it, so a
\* third selection fails
C3_Witness ==
    /\ Cardinality(DOMAIN players) = 2
    /\ \A s \in DOMAIN players :
           /\ players[s].characterId \in DOMAIN gameState.characterLocks
           /\ gameState.characterLocks[players[s].characterId].sessionId = s
    /\ \A c \in CharacterInputs : \A s \in SessionIds : ~addPlayer(s, "alice", c).success

\* C5: a collectCoins or dropCoins call leaves the sum of the player's gold
\* and the room's coins as it was: a collect moves the whole room counter to
\* the player, a drop the whole of the player's gold to the room, and no
\* other gold changes
C5_GoldConserved ==
    \A s \in DOMAIN players :
        LET room == players[s].currentRoom
            gold == players[s].inventory.gold
            here == gameState.roomStates[room].coins
            c    == collectCoins(s)
            d    == dropCoins(s)
        IN  /\ c.players[s].inventory.gold + c.gameState.roomStates[room].coins = gold + here
            /\ d.players[s].inventory.gold + d.gameState.roomStates[room].coins = gold + here
            /\ TotalGold(c.players, c.gameState) = TotalGold(players, gameState)
            /\ TotalGold(d.players, d.gameState) = TotalGold(players, gameState)
            /\ c.success => /\ c.players[s].inventory.gold = gold + here
                            /\ c.gameState.roomStates[room].coins = 0
            /\ d.success => /\ d.players[s].inventory.gold = 0
                            /\ d.gameState.roomStates[room].coins = here + gold
            /\ c.success <=> here > 0
            /\ d.success <=> gold > 0

\* gold collected in one room lies on the floor of another: a collect, a move
\* and a drop have happened; and a player holding gold stands on coins
C5_Witness ==
    /\ \E id \in DOMAIN rooms :
           /\ id # startingRoom
           /\ gameState.roomStates[id].coins > 0
           /\ gameState.roomStates[startingRoom].lastCoinSpawn # -1
    /\ \E s \in DOMAIN players :
           /\ players[s].inventory.gold > 0
           /\ gameState.roomStates[players[s].currentRoom].coins > 0

\* C7: a move through a locked exit by a player without the exit's key fails
\* with a reason that names the key id, and leaves the player's room, the
\* player's lastAction and the exit's type as they were
C7_LockedMoveNamesKey ==
    \A s \in DOMAIN players : \A d \in DirSet : \A w \in MoveDraws :
        LET from == players[s].currentRoom
            exit == rooms[from].exits[d]
            r    == movePlayer(s, d, w[1], w[2])
        IN  (exit.type = "locked" /\ ~holdsItem(players[s], requiredKeyOf(exit)))
                => /\ ~r.success
                   /\ r.error.item = requiredKeyOf(exit)
                   /\ r.players[s].currentRoom = from
                   /\ r.players[s].lastAction = players[s].lastAction
                   /\ r.rooms[from].exits[d].type = "locked"

unlockedExit(exit) ==
    exit.type = "open" /\ (exit.requiredItem # "undefined" \/ exit.keyRequired # "undefined")

\* C9: once a move has unlocked an exit, every player, with or without the
\* key, moves through it from either side
C9_StaysOpenBothSides ==
    \A id \in DOMAIN rooms : \A d \in DirSet :
        unlockedExit(rooms[id].exits[d]) =>
            \A s \in DOMAIN players : \A w \in MoveDraws :
                /\ players[s].currentRoom = id => movePlayer(s, d, w[1], w[2]).success
                /\ players[s].currentRoom = rooms[id].exits[d].to
                       => movePlayer(s, getReverseDirection(d), w[1], w[2]).success

(***************************************************************************)
(* SpecSession: the WebSocket handler and the timeout manager over the     *)
(* engine, in the world the server generates.                              *)
(***************************************************************************)
\* String.trim on the usernames that occur
Trim(name) ==
    CASE name = "alice " -> "alice"
      [] name = " " -> ""
      [] OTHER -> name

UsernameInputs == Usernames \cup {"alice ", " "}

\* the command lines a client sends
Commands == {"look", "go south", "go n", "collect", " "}

\* CommandParser.parse on those lines
parse(command) ==
    CASE command = "look" -> [type |-> "look", direction |-> "none"]
      [] command = "go south" -> [type |-> "movement", direction |-> "south"]
      [] command = "go n" -> [type |-> "movement", direction |-> "north"]
      [] command = "collect" -> [type |-> "collect", direction |-> "none"]
      [] command = "drop" -> [type |-> "drop", direction |-> "none"]
      [] OTHER -> [type |-> "error", direction |-> "none"]

InitSession ==
    /\ NoAsync
    /\ phase = "running"
    /\ LET w == ProceduralWorld(ENGINE_ROOMS)
       IN  /\ rooms = w.rooms
           /\ locks = w.locks
           /\ lockCount = Len(w.locks)
           /\ lockIter = Len(w.locks)
           /\ \E g \in GhostDraws(w.rooms) :
                 /\ ghosts = g
                 /\ gameState = [createInitialState(w.rooms) EXCEPT
                                    !.ghostLocations = getAllLocations(g)]
    /\ players = EmptyMap
    /\ spawnTimers = EmptyMap
    /\ now = 0
    /\ SessionIdle
    /\ files = [world |-> NoFile, state |-> SavedState(createInitialState(rooms))]
    /\ pc = Idle
    /\ autosaveTimer = TRUE

\* io.on('connection'): a socket with a fresh id
Connect ==
    \E s \in SessionIds :
        /\ socketState[s] = "new"
        /\ socketState' = [socketState EXCEPT ![s] = "connected"]
        /\ UNCHANGED <<genVars, files, loopVars, engineVars, sessions, characterTimers, idleTimers>>

handleLogin ==
    \E s \in SessionIds, u \in UsernameInputs :
        /\ socketState[s] = "connected"
        /\ sessions' = IF Trim(u) = "" THEN sessions
                       ELSE Put(sessions, s, [username |-> Trim(u), characterId |-> "null"])
        /\ UNCHANGED <<genVars, files, loopVars, engineVars, socketState, characterTimers, idleTimers>>

handleCharacterSelection ==
    \E s \in SessionIds, c \in CharacterInputs :
        /\ socketState[s] = "connected"
        /\ IF s \notin DOMAIN sessions
           THEN UNCHANGED <<players, gameState, sessions, idleTimers>>
           ELSE LET r == addPlayer(s, sessions[s].username, c)
                IN  /\ players' = r.players
                    /\ gameState' = r.gameState
                    /\ sessions' = IF r.success
                                   THEN [sessions EXCEPT ![s].characterId = c]
                                   ELSE sessions
                    /\ idleTimers' = IF r.success THEN idleTimers \cup {s} ELSE idleTimers
        /\ UNCHANGED <<genVars, files, loopVars, ghosts, spawnTimers, now, socketState, characterTimers>>

\* handleCommand: the idle timer is restarted, then the command is routed
handleCommand ==
    \E s \in SessionIds, command \in Commands :
        /\ socketState[s] = "connected"
        /\ IF Trim(command) = ""
           THEN UNCHANGED <<players, gameState, rooms, spawnTimers, idleTimers>>
           ELSE /\ idleTimers' = idleTimers \cup {s}
                /\ LET parsed == parse(command)
                   IN  \E draw \in IF parsed.type = "movement"
                                    THEN EncounterDraws(s, parsed.direction)
                                    ELSE {<<TRUE, MIN_GOLD_LOSS>>} :
                         LET r == CASE parsed.type = "movement" ->
                                          movePlayer(s, parsed.direction, draw[1], draw[2])
                                    [] parsed.type = "collect" -> collectCoins(s)
                                    [] OTHER -> Fail(NoError)
                         IN  /\ players' = r.players
                             /\ gameState' = r.gameState
                             /\ rooms' = r.rooms
                             /\ spawnTimers' = r.spawnTimers
        /\ UNCHANGED <<files, loopVars, phase, locks, lockCount, lockIter, ghosts, now, socketState, sessions,
                       characterTimers>>

\* TimeoutManager.startCharacterTimeout, cancelCharacterTimeout and
\* clearSession on the timer maps
startCharacterTimeout(timers, sessionId) == (timers \ {sessionId}) \cup {sessionId}

cancelCharacterTimeout(timers, sessionId) == timers \ {sessionId}

clearSession(timers, sessionId) == cancelCharacterTimeout(timers, sessionId)

\* handleDisconnect: the release timer is started for a session with a
\* character and a player, then clearSession runs on the same session id
handleDisconnect ==
    \E s \in SessionIds :
        /\ socketState[s] = "connected"
        /\ socketState' = [socketState EXCEPT ![s] = "closed"]
        /\ LET started == IF /\ s \in DOMAIN sessions
                             /\ sessions[s].characterId # "null"
                             /\ s \in DOMAIN players
                          THEN startCharacterTimeout(characterTimers, s)
                          ELSE characterTimers
           IN  characterTimers' = clearSession(started, s)
        /\ idleTimers' = idleTimers \ {s}
        /\ UNCHANGED <<genVars, files, loopVars, engineVars, sessions>>

\* a pending timer fires: the release callback of handleDisconnect, or the
\* idle callback of updateActivity
TimerFires ==
    \E s \in characterTimers \cup idleTimers :
        IF s \in characterTimers
        THEN /\ characterTimers' = characterTimers \ {s}
             /\ players' = removePlayer(s).players
             /\ gameState' = removePlayer(s).gameState
             /\ sessions' = Del(sessions, s)
             /\ UNCHANGED <<genVars, files, loopVars, ghosts, spawnTimers, now, socketState, idleTimers>>
        ELSE /\ idleTimers' = idleTimers \ {s}
             /\ players' = IF s \in DOMAIN players
                           THEN [players EXCEPT ![s].status = "idle"]
                           ELSE players
             /\ gameState' = IF s \in DOMAIN players
                             THEN [gameState EXCEPT !.players[s].status = "idle"]
                             ELSE gameState
             /\ UNCHANGED <<genVars, files, loopVars, ghosts, spawnTimers, now, socketState, sessions,
                            characterTimers>>

NextSession ==
    \/ Connect
    \/ handleLogin
    \/ handleCharacterSelection
    \/ handleCommand
    \/ handleDisconnect
    \/ TimerFires
    \/ MoveAllGhosts

SpecSession == InitSession /\ [][NextSession]_vars

\* C4: a session that selected a character and has disconnected, and whose
\* player is still in the game, has its character-release timer pending
C4_ReleaseTimerPending ==
    \A s \in SessionIds :
        (socketState[s] = "closed" /\ s \in DOMAIN sessions /\ s \in DOMAIN players)
            => s \in characterTimers

(***************************************************************************)
(* SpecStartup: initializeServer.  The world is generated, the game state  *)
(* is loaded from data/game-state.json or created from data/world.json,    *)
(* then the engine and the ghosts are initialized.                         *)
(***************************************************************************)
\* ids of rooms whose names are not of the form room_<i>: the authored rooms
\* entrance_hall and grand_chamber
AuthoredIds == {100, 101}

AuthoredRoom(amount) ==
    [coins |-> [spawnType |-> "respawn-timer", amount |-> amount,
                respawnInterval |-> DEFAULT_RESPAWN_INTERVAL],
     objects |-> <<>>]

\* data/world.json: absent, an authored world, or a world whose rooms carry
\* the ids the generator uses
WorldFiles ==
    { NoFile,
      [kind |-> "json", rooms |-> [id \in AuthoredIds |-> AuthoredRoom(MAX_GOLD)]],
      [kind |-> "json", rooms |-> [id \in 0..(ENGINE_ROOMS - 1) |-> AuthoredRoom(MIN_GOLD)]] }

\* data/game-state.json before the first start: absent or not JSON
StateFiles == {NoStateFile, CorruptStateFile}

\* StateManager.loadState on the files: the state it returns, the files it
\* leaves, and whether loadWorldData threw
loadState(fs, writeOk) ==
    IF fs.state.kind = "json"
    THEN [thrown |-> FALSE, gameState |-> JSONparse(fs.state.state), files |-> fs]
    ELSE IF fs.world.kind # "json"
    THEN [thrown |-> TRUE, gameState |-> NoGameState, files |-> fs]
    ELSE LET initialState == createInitialState(fs.world.rooms)
         IN  [thrown |-> FALSE, gameState |-> initialState,
              files |-> IF fs.state.kind = "ENOENT"
                        THEN saveState(fs, initialState, writeOk).files
                        ELSE fs]

\* every room taken for a room on a respawn timer
everyRoom(rs) == DOMAIN rs

\* CoinSpawner.initialize: the rooms on a respawn timer whose coins are due
\* get them, the others get a timer; a room without a state makes it throw
timedRooms(rs) == {id \in DOMAIN rs : rs[id].coins.spawnType = "respawn-timer"}

\* an initialize that arms every pending room for the whole interval
coinSpawnerInitializeFullDelay(rs, gs, t) ==
    LET waiting == {id \in timedRooms(rs) \cap DOMAIN gs.roomStates :
                       gs.roomStates[id].coins = 0 /\ gs.roomStates[id].lastCoinSpawn # -1}
        respawnInterval(id) == IF rs[id].coins.respawnInterval = 0
                               THEN DEFAULT_RESPAWN_INTERVAL
                               ELSE rs[id].coins.respawnInterval
        timeSinceSpawn(id) == t - gs.roomStates[id].lastCoinSpawn
        overdue == {id \in waiting : timeSinceSpawn(id) >= respawnInterval(id)}
    IN  [thrown |-> timedRooms(rs) \ DOMAIN gs.roomStates # {},
         gameState |-> [gs EXCEPT !.roomStates =
                          [id \in DOMAIN gs.roomStates |->
                              IF id \in overdue
                              THEN [gs.roomStates[id] EXCEPT !.coins = rs[id].coins.amount,
                                                             !.lastCoinSpawn = -1]
                              ELSE gs.roomStates[id]]],
         spawnTimers |-> [id \in waiting \ overdue |->
                            [startedAt |-> t,
                             delay |-> respawnInterval(id),
                             amount |-> rs[id].coins.amount]]]

coinSpawnerInitializeAt(rs, gs, t) ==
    LET waiting == {id \in timedRooms(rs) \cap DOMAIN gs.roomStates :
                       gs.roomStates[id].coins = 0 /\ gs.roomStates[id].lastCoinSpawn # -1}
        respawnInterval(id) == IF rs[id].coins.respawnInterval = 0
                               THEN DEFAULT_RESPAWN_INTERVAL
                               ELSE rs[id].coins.respawnInterval
        timeSinceSpawn(id) == t - gs.roomStates[id].lastCoinSpawn
        overdue == {id \in waiting : timeSinceSpawn(id) >= respawnInterval(id)}
    IN  [thrown |-> timedRooms(rs) \ DOMAIN gs.roomStates # {},
         gameState |-> [gs EXCEPT !.roomStates =
                          [id \in DOMAIN gs.roomStates |->
                              IF id \in overdue
                              THEN [gs.roomStates[id] EXCEPT !.coins = rs[id].coins.amount,
                                                             !.lastCoinSpawn = -1]
                              ELSE gs.roomStates[id]]],
         spawnTimers |-> [id \in waiting \ overdue |->
                            [startedAt |-> t,
                             delay |-> respawnInterval(id) - timeSinceSpawn(id),
                             amount |-> rs[id].coins.amount]]]

\* initialize at the time the clock shows
coinSpawnerInitialize(rs, gs) == coinSpawnerInitializeAt(rs, gs, now)

\* GhostManager.initialize's writes to gameState.ghostLocations
withGhostLocations(gs, g) ==
    [gs EXCEPT !.ghostLocations =
        [gid \in DOMAIN gs.ghostLocations \cup DOMAIN getAllLocations(g) |->
            IF gid \in DOMAIN getAllLocations(g) THEN getAllLocations(g)[gid]
            ELSE gs.ghostLocations[gid]]]

InitStartup ==
    /\ NoAsync
    /\ phase = "boot"
    /\ rooms = EmptyMap
    /\ locks = <<>>
    /\ lockCount = -1
    /\ lockIter = 0
    /\ EngineIdle
    /\ files \in [world : WorldFiles, state : StateFiles]
    /\ pc = Idle
    /\ autosaveTimer = FALSE

\* stateManager.loadOrGenerateWorld: always generateProceduralWorld, here up
\* to its call of addLocksAndKeys, which runs as in SpecWorld
GenerateProceduralWorld ==
    /\ phase = "boot"
    /\ rooms' \in WorldsBeforeLocks(ENGINE_ROOMS)
    /\ phase' = "items"
    /\ UNCHANGED <<locks, lockCount, lockIter>>
    /\ UNCHANGED <<engineVars, sessionVars, files, loopVars>>

\* stateManager.loadState; when it throws, initializeServer exits the process
LoadState ==
    /\ phase = "world"
    /\ \E writeOk \in BOOLEAN :
          /\ phase' = IF loadState(files, writeOk).thrown THEN "exited" ELSE "stateLoaded"
          /\ gameState' = loadState(files, writeOk).gameState
          /\ files' = loadState(files, writeOk).files
    /\ UNCHANGED <<rooms, locks, lockCount, lockIter, players, ghosts, spawnTimers, now,
                   sessionVars, loopVars>>

\* gameEngine.initialize with coinSpawner.initialize, then
\* ghostManager.initialize on the engine's game state
InitializeEngine ==
    /\ phase = "stateLoaded"
    /\ LET r == coinSpawnerInitialize(rooms, gameState)
       IN  IF r.thrown
           THEN /\ phase' = "exited"
                /\ UNCHANGED <<gameState, ghosts, spawnTimers, autosaveTimer>>
           ELSE \E g \in GhostDraws(rooms) :
                    /\ phase' = "running"
                    /\ ghosts' = g
                    /\ gameState' = withGhostLocations(r.gameState, g)
                    /\ spawnTimers' = r.spawnTimers
                    /\ autosaveTimer' = TRUE
    /\ UNCHANGED <<rooms, locks, lockCount, lockIter, players, now, sessionVars, files, pc,
                   asyncVars>>

\* the autosave timer fires: saveState on the engine's game state
Autosave ==
    /\ autosaveTimer
    /\ dispatch
    /\ \E writeOk \in BOOLEAN : files' = saveState(files, gameState, writeOk).files
    /\ UNCHANGED <<genVars, engineVars, sessionVars, loopVars>>

\* gracefulShutdown stops the autosave, saves the game state and exits; the
\* server is started again with the files it left
GracefulShutdown ==
    /\ phase = "running"
    /\ pc = Idle
    /\ \E writeOk \in BOOLEAN : files' = saveState(files, gameState, writeOk).files
    /\ autosaveTimer' = FALSE
    /\ phase' = "boot"
    /\ rooms' = EmptyMap
    /\ locks' = <<>>
    /\ lockCount' = -1
    /\ lockIter' = 0
    /\ players' = EmptyMap
    /\ gameState' = NoGameState
    /\ ghosts' = <<>>
    /\ spawnTimers' = EmptyMap
    /\ UNCHANGED <<now, sessionVars, pc, asyncVars>>

NextStartup ==
    \/ GenerateProceduralWorld
    \/ AddLocksAndKeys
    \/ AddLockIteration
    \/ LocksDone
    \/ LoadState
    \/ InitializeEngine
    \/ Autosave
    \/ GracefulShutdown

SpecStartup == InitStartup /\ [][NextStartup]_vars

\* C6: once the server runs, gameState.roomStates has an entry for exactly
\* the room ids of the world the engine serves
C6_RoomStatesMatchWorld ==
    phase = "running" => DOMAIN gameState.roomStates = DOMAIN rooms

(***************************************************************************)
(* SpecCoins: the engine over world data with a room on a respawn timer,   *)
(* the respawn timers firing, and the server restarting.                   *)
(***************************************************************************)
\* world data of COIN_ROOMS rooms without locks whose starting room respawns
\* StartGold coins and holds an object that spawns a coin when it is opened
TimedWorld ==
    LET n    == COIN_ROOMS
        t    == CHOOSE x \in TargetAssignments(n) : TRUE
        base == distributeGold(generate(n, t), EngineGoldDraw(0..(n - 1)))
    IN  [rooms |-> [base EXCEPT
                       ![startingRoom].coins =
                           [spawnType |-> "respawn-timer", amount |-> StartGold,
                            respawnInterval |-> DEFAULT_RESPAWN_INTERVAL],
                       ![startingRoom].objects =
                           <<GivingObject("chest", "Wooden Chest", "undefined", 1)>>],
         locks |-> <<>>]

InitCoins ==
    /\ NoAsync
    /\ phase = "running"
    /\ rooms = TimedWorld.rooms
    /\ locks = TimedWorld.locks
    /\ lockCount = Len(locks)
    /\ lockIter = Len(locks)
    /\ \E g \in GhostDraws(rooms) :
          /\ ghosts = g
          /\ gameState = [createInitialState(rooms) EXCEPT !.ghostLocations = getAllLocations(g)]
    /\ players = EmptyMap
    /\ spawnTimers = EmptyMap
    /\ now = 0
    /\ SessionIdle
    /\ files = [world |-> [kind |-> "json", rooms |-> rooms],
                state |-> SavedState(createInitialState(rooms))]
    /\ pc = Idle
    /\ autosaveTimer = TRUE

\* the time a pending respawn timer is due
dueTime(timer) == timer.startedAt + timer.delay

\* a callback that restores the coins and leaves the collection time set
respawnCoinsKeepingTime(roomId) ==
    [gameState |-> [gameState EXCEPT !.roomStates[roomId].coins = spawnTimers[roomId].amount],
     spawnTimers |-> Del(spawnTimers, roomId)]

\* the callback of startRespawnTimer
respawnCoins(roomId) ==
    [gameState |-> [gameState EXCEPT !.roomStates[roomId].coins = spawnTimers[roomId].amount,
                                     !.roomStates[roomId].lastCoinSpawn = -1],
     spawnTimers |-> Del(spawnTimers, roomId)]

\* the respawn timer that is due first fires; the clock has reached its time
RespawnTimerFires ==
    \E roomId \in DOMAIN spawnTimers :
        /\ \A other \in DOMAIN spawnTimers :
               dueTime(spawnTimers[roomId]) <= dueTime(spawnTimers[other])
        /\ now' = IF dueTime(spawnTimers[roomId]) > now
                  THEN dueTime(spawnTimers[roomId]) ELSE now
        /\ gameState' = respawnCoins(roomId).gameState
        /\ spawnTimers' = respawnCoins(roomId).spawnTimers
        /\ UNCHANGED <<phase, rooms, locks, lockCount, lockIter, players, ghosts, sessionVars,
                       files, loopVars>>

\* the times the server stays down between shutdown and start
Downtimes == {DEFAULT_RESPAWN_INTERVAL \div 3, DEFAULT_RESPAWN_INTERVAL}

\* gracefulShutdown, and initializeServer on the same world data after a
\* downtime: the state is saved and loaded, every timer of the old process
\* is gone, and coinSpawner.initialize runs at the new time
RestartServer ==
    \E downtime \in Downtimes, g \in GhostDraws(TimedWorld.rooms) :
        /\ now + downtime <= MaxClock
        /\ LET saved  == saveState(files, gameState, TRUE).files
               loaded == loadState(saved, TRUE).gameState
               r      == coinSpawnerInitializeAt(TimedWorld.rooms, loaded, now + downtime)
           IN  /\ files' = saved
               /\ gameState' = withGhostLocations(r.gameState, g)
               /\ spawnTimers' = r.spawnTimers
        /\ now' = now + downtime
        /\ rooms' = TimedWorld.rooms
        /\ players' = EmptyMap
        /\ ghosts' = g
        /\ UNCHANGED <<phase, locks, lockCount, lockIter, sessionVars, loopVars>>

NextCoins ==
    \/ AddPlayer
    \/ MovePlayer
    \/ InteractWithObject
    \/ CollectCoins
    \/ DropCoins
    \/ Say
    \/ PerformAction
    \/ MoveAllGhosts
    \/ RespawnTimerFires

SpecCoins == InitCoins /\ [][NextCoins]_vars

\* the same server with the timers of the event loop being served: a pending
\* respawn timer fires
SpecCoinsLive == InitCoins /\ [][NextCoins]_vars /\ WF_vars(RespawnTimerFires)

\* what a successful collection leaves in a respawn-timer room, and what the
\* timer callback leaves
CollectArmsRespawn ==
    /\ \A s \in DOMAIN players :
           LET roomId == players[s].currentRoom
               r      == collectCoins(s)
           IN  (r.success /\ rooms[roomId].coins.spawnType = "respawn-timer") =>
                   /\ r.gameState.roomStates[roomId].coins = 0
                   /\ r.gameState.roomStates[roomId].lastCoinSpawn = now
                   /\ r.gameState.roomStates[roomId].lastCoinSpawn # -1
                   /\ roomId \in DOMAIN r.spawnTimers
                   /\ r.spawnTimers[roomId].startedAt = now
                   /\ r.spawnTimers[roomId].delay = rooms[roomId].coins.respawnInterval
    /\ \A roomId \in DOMAIN spawnTimers :
           /\ respawnCoins(roomId).gameState.roomStates[roomId].coins
                  = rooms[roomId].coins.amount
           /\ respawnCoins(roomId).gameState.roomStates[roomId].lastCoinSpawn = -1
           /\ roomId \notin DOMAIN respawnCoins(roomId).spawnTimers

\* the room holds its configured amount and no collection time
respawned(roomId) ==
    /\ gameState.roomStates[roomId].coins = rooms[roomId].coins.amount
    /\ gameState.roomStates[roomId].lastCoinSpawn = -1
    /\ roomId \notin DOMAIN spawnTimers

\* C11: a successful collection in a respawn-timer room leaves 0 coins, the
\* collection time and a timer of respawnInterval; the timer's callback
\* leaves the configured amount and no collection time; and an armed timer
\* leads to the room having respawned
C11_CollectThenRespawn ==
    /\ []CollectArmsRespawn
    /\ \A roomId \in timedRooms(TimedWorld.rooms) :
           (roomId \in DOMAIN spawnTimers) ~> respawned(roomId)

\* the timer of a collection has fired: the clock is at its due time, the
\* room has respawned and a player holds what was collected
C11_Witness ==
    /\ now = DEFAULT_RESPAWN_INTERVAL
    /\ respawned(startingRoom)
    /\ \E s \in DOMAIN players : players[s].inventory.gold >= StartGold

\* C12: in a respawn-timer room an armed timer means 0 coins and a
\* collection time, and coins on the floor mean no timer and no collection
\* time
C12_TimerIffPending ==
    \A roomId \in timedRooms(rooms) \cap DOMAIN gameState.roomStates :
        /\ roomId \in DOMAIN spawnTimers =>
               /\ gameState.roomStates[roomId].coins = 0
               /\ gameState.roomStates[roomId].lastCoinSpawn # -1
        /\ gameState.roomStates[roomId].coins > 0 =>
               /\ roomId \notin DOMAIN spawnTimers
               /\ gameState.roomStates[roomId].lastCoinSpawn = -1

(***************************************************************************)
(* SpecRestart: collections, drops, respawns and restarts of the server.   *)
(***************************************************************************)
NextRestart ==
    \/ AddPlayer
    \/ InteractWithObject
    \/ CollectCoins
    \/ DropCoins
    \/ RespawnTimerFires
    \/ RestartServer

SpecRestart == InitCoins /\ [][NextRestart]_vars

\* a respawn-timer room that waits for its coins
pendingRoom(gs, roomId) ==
    gs.roomStates[roomId].coins = 0 /\ gs.roomStates[roomId].lastCoinSpawn # -1

\* C13: when the server is started again on the saved state, initialize
\* restores at once every pending room whose interval has elapsed, and arms
\* for every other pending room a timer of exactly the remaining time that
\* restores the configured amount
C13_CatchUpOrRemaining ==
    \A downtime \in Downtimes :
        LET t      == now + downtime
            loaded == loadState(saveState(files, gameState, TRUE).files, TRUE).gameState
            r      == coinSpawnerInitializeAt(rooms, loaded, t)
        IN  \A roomId \in timedRooms(rooms) :
                pendingRoom(loaded, roomId) =>
                    LET elapsed  == t - loaded.roomStates[roomId].lastCoinSpawn
                        interval == rooms[roomId].coins.respawnInterval
                    IN  IF elapsed >= interval
                        THEN /\ r.gameState.roomStates[roomId].coins = rooms[roomId].coins.amount
                             /\ r.gameState.roomStates[roomId].lastCoinSpawn = -1
                             /\ roomId \notin DOMAIN r.spawnTimers
                        ELSE /\ r.gameState.roomStates[roomId] = loaded.roomStates[roomId]
                             /\ roomId \in DOMAIN r.spawnTimers
                             /\ r.spawnTimers[roomId].startedAt = t
                             /\ r.spawnTimers[roomId].delay = interval - elapsed
                             /\ r.spawnTimers[roomId].amount = rooms[roomId].coins.amount

\* the server came up again before the interval of a pending room was over:
\* no player is connected and the timer runs for less than the interval
C13_Witness ==
    /\ players = EmptyMap
    /\ startingRoom \in DOMAIN spawnTimers
    /\ spawnTimers[startingRoom].delay < rooms[startingRoom].coins.respawnInterval
    /\ pendingRoom(gameState, startingRoom)

(***************************************************************************)
(* SpecEncounter: players collect a purse and meet the ghost again and     *)
(* again.                                                                  *)
(***************************************************************************)
\* every loss percentage in thousandths: MIN_GOLD_LOSS + Math.random() *
\* (MAX_GOLD_LOSS - MIN_GOLD_LOSS) with Math.random() in [0, 1)
AllLossDraws == MIN_GOLD_LOSS .. (MAX_GOLD_LOSS - 1)

\* the starting room holds a purse to collect
InitEncounter ==
    /\ NoAsync
    /\ phase = "running"
    /\ rooms = TimedWorld.rooms
    /\ locks = TimedWorld.locks
    /\ lockCount = Len(locks)
    /\ lockIter = Len(locks)
    /\ \E g \in GhostDraws(rooms), gold \in {0} \cup (MinPurse .. MaxPurse) :
          /\ ghosts = g
          /\ gameState = [createInitialState(rooms) EXCEPT
                             !.ghostLocations = getAllLocations(g),
                             !.roomStates[startingRoom].coins = gold]
    /\ players = EmptyMap
    /\ spawnTimers = EmptyMap
    /\ now = 0
    /\ SessionIdle
    /\ files = [world |-> [kind |-> "json", rooms |-> rooms],
                state |-> SavedState(createInitialState(rooms))]
    /\ pc = Idle
    /\ autosaveTimer = TRUE

\* the ghost is in the player's room and the encounter roll has hit
ProcessEncounter ==
    \E s \in DOMAIN players, lossPermille \in AllLossDraws :
        LET enc == processEncounter(players[s], lossPermille)
        IN  /\ \E i \in DOMAIN ghosts : ghosts[i].currentRoom = players[s].currentRoom
            /\ players' = Put(players, s, enc.player)
            /\ gameState' = [gameState EXCEPT !.players = players']
            /\ UNCHANGED <<phase, rooms, locks, lockCount, lockIter, ghosts, spawnTimers,
                           now, socketState, sessions, characterTimers, idleTimers,
                           files, loopVars>>

NextEncounter == AddPlayer \/ CollectCoins \/ ProcessEncounter \/ MoveAllGhosts

SpecEncounter == InitEncounter /\ [][NextEncounter]_vars

\* the least integer that is at least n / d
CeilDiv(n, d) == (n + d - 1) \div d

\* C14: an encounter takes nothing from a player without gold; from a player
\* with gold g it takes max(1, floor(g * f)) for a fraction f of 10% up to
\* 30%: at least 1, at least floor(0.10 g), at most ceil(0.30 g), at most g,
\* and the remaining gold it reports and leaves is g minus the loss
C14_EncounterLoss ==
    \A s \in DOMAIN players, lossPermille \in AllLossDraws :
        LET g   == players[s].inventory.gold
            enc == processEncounter(players[s], lossPermille)
            fl  == (g * lossPermille) \div 1000
        IN  IF g = 0
            THEN /\ enc.goldLost = 0
                 /\ enc.player = players[s]
            ELSE /\ enc.goldLost = (IF fl >= 1 THEN fl ELSE 1)
                 /\ enc.goldLost >= 1
                 /\ enc.goldLost >= (g * MIN_GOLD_LOSS) \div 1000
                 /\ enc.goldLost <= CeilDiv(g * MAX_GOLD_LOSS, 1000)
                 /\ enc.goldLost <= g
                 /\ enc.goldRemaining = g - enc.goldLost
                 /\ enc.player = [players[s] EXCEPT !.inventory.gold = g - enc.goldLost]

\* a collected purse that encounters have brought down to the last coin
C14_Witness ==
    \E s \in DOMAIN players : players[s].inventory.gold = 1

removeStep(sessionId) ==
    /\ players' = removePlayer(sessionId).players
    /\ gameState' = removePlayer(sessionId).gameState
    /\ rooms' = rooms
    /\ spawnTimers' = spawnTimers

\* C16: removePlayer of a session with a player deletes the player from the
\* engine and from gameState.players and deletes the lock of its character,
\* leaving every other player and lock, and addPlayer for that character
\* succeeds in the state it leaves; for a session without a player it
\* changes nothing
C16_RemovePlayer ==
    /\ [](\A s \in SessionIds :
             LET r == removePlayer(s)
             IN  IF s \in DOMAIN players
                 THEN /\ r.players = Del(players, s)
                      /\ r.gameState.players = Del(gameState.players, s)
                      /\ s \notin DOMAIN r.players
                      /\ s \notin DOMAIN r.gameState.players
                      /\ players[s].characterId \notin DOMAIN r.gameState.characterLocks
                      /\ r.gameState.characterLocks
                             = Del(gameState.characterLocks, players[s].characterId)
                      /\ r.gameState.roomStates = gameState.roomStates
                      /\ r.gameState.ghostLocations = gameState.ghostLocations
                      /\ r.rooms = rooms
                      /\ r.spawnTimers = spawnTimers
                 ELSE /\ r.players = players
                      /\ r.gameState = gameState
                      /\ r.rooms = rooms
                      /\ r.spawnTimers = spawnTimers)
    /\ [][\A s \in DOMAIN players :
              removeStep(s) =>
                  \A s2 \in SessionIds, u \in Usernames, c \in {players[s].characterId} :
                      (addPlayer(s2, u, c).success)']_vars

\* everybody has left after gold was collected: no player, no lock, and a
\* room that is no longer as the world data made it
C16_Witness ==
    /\ players = EmptyMap
    /\ gameState.players = EmptyMap
    /\ gameState.characterLocks = EmptyMap
    /\ gameState.roomStates # createInitialState(rooms).roomStates

\* the failure every call answers to a session without a player, with the
\* whole state as it was
failsUnchanged(r) ==
    /\ ~r.success
    /\ r.error = Err("Player not found")
    /\ r.players = players
    /\ r.gameState = gameState
    /\ r.rooms = rooms
    /\ r.spawnTimers = spawnTimers

\* C17: movePlayer, interactWithObject, collectCoins, dropCoins, say and
\* performAction of a session that has no player return a failure and leave
\* players, locks, room states, exits and timers as they were
C17_NoPlayerNoChange ==
    \A s \in SessionIds \ DOMAIN players :
        /\ \A d \in DirSet : \A roll \in BOOLEAN : \A loss \in LossDraws :
               failsUnchanged(movePlayer(s, d, roll, loss))
        /\ \A v \in Verbs : \A o \in ObjectNames :
               failsUnchanged(interactWithObject(s, v, o))
        /\ failsUnchanged(collectCoins(s))
        /\ failsUnchanged(dropCoins(s))
        /\ \A message \in Messages : failsUnchanged(say(s, message))
        /\ \A verb \in ActionInputs : failsUnchanged(performAction(s, verb))

\* one session plays (gold in hand, a respawn pending, coins on the floor of
\* its room) while another has no player
C17_Witness ==
    /\ SessionIds \ DOMAIN players # {}
    /\ spawnTimers # EmptyMap
    /\ \E s \in DOMAIN players :
           /\ players[s].inventory.gold > 0
           /\ gameState.roomStates[players[s].currentRoom].coins > 0

\* C18: under every interleaving of collections, drops, interactions, moves
\* with ghost encounters and respawn callbacks, the coins of every room and
\* the gold of every player are integers that are at least 0
C18_CoinsNeverNegative ==
    /\ \A id \in DOMAIN gameState.roomStates : gameState.roomStates[id].coins \in Nat
    /\ \A s \in DOMAIN players : players[s].inventory.gold \in Nat
    /\ \A s \in DOMAIN gameState.players : gameState.players[s].inventory.gold \in Nat

\* after an interaction, a collection and a respawn, a player stands with an
\* empty purse in the room of a ghost and gold has left the world
C18_Witness ==
    /\ now = DEFAULT_RESPAWN_INTERVAL
    /\ \E s \in DOMAIN players :
           /\ players[s].inventory.gold = 0
           /\ \E o \in DOMAIN gameState.roomStates[startingRoom].objectStates :
                  gameState.roomStates[startingRoom].objectStates[o] = "open"
           /\ \E i \in DOMAIN ghosts : ghosts[i].currentRoom = players[s].currentRoom
    /\ TotalGold(players, gameState) < StartGold + 1

(***************************************************************************)
(* SpecLoop: the callbacks of the event loop, addPlayer and collectCoins   *)
(* one statement at a time, the others in one step.                        *)
(***************************************************************************)
Running(op, sessionId, step) == [op |-> op, sessionId |-> sessionId, step |-> step]

loopRest == <<phase, locks, lockCount, lockIter, ghosts, sessionVars, files, autosaveTimer,
             asyncVars>>

\* addPlayer up to this.players.set(sessionId, player)
AddPlayerBegin ==
    \E s \in SessionIds, u \in Usernames, c \in CharacterInputs :
        /\ dispatch
        /\ addPlayer(s, u, c).success
        /\ players' = addPlayer(s, u, c).players
        /\ pc' = Running("addPlayer", s, 1)
        /\ UNCHANGED <<gameState, rooms, spawnTimers, now, loopRest>>

\* this.gameState.players[sessionId] = player
AddPlayerState ==
    /\ pc.op = "addPlayer" /\ pc.step = 1
    /\ gameState' = [gameState EXCEPT
                        !.players = Put(@, pc.sessionId, players[pc.sessionId])]
    /\ pc' = [pc EXCEPT !.step = 2]
    /\ UNCHANGED <<players, rooms, spawnTimers, now, loopRest>>

\* this.gameState.characterLocks[characterId] = {...}; return
AddPlayerLock ==
    /\ pc.op = "addPlayer" /\ pc.step = 2
    /\ LET player == players[pc.sessionId]
       IN  gameState' = [gameState EXCEPT
                            !.characterLocks =
                                Put(@, player.characterId,
                                    [sessionId |-> player.sessionId,
                                     username |-> player.username, lockedAt |-> now])]
    /\ pc' = Idle
    /\ UNCHANGED <<players, rooms, spawnTimers, now, loopRest>>

\* collectCoins up to player.inventory.gold += coinCount; the player of the
\* engine and of the game state is one object
CollectCoinsBegin ==
    \E s \in SessionIds :
        /\ dispatch
        /\ now < MaxClock
        /\ collectCoins(s).success
        /\ LET coinCount == gameState.roomStates[players[s].currentRoom].coins
               player    == [players[s] EXCEPT !.inventory.gold = @ + coinCount]
           IN  /\ players' = Put(players, s, player)
               /\ gameState' = [gameState EXCEPT !.players = Put(@, s, player)]
        /\ pc' = Running("collectCoins", s, 1)
        /\ UNCHANGED <<rooms, spawnTimers, now, loopRest>>

\* roomState.coins = 0
CollectCoinsZero ==
    /\ pc.op = "collectCoins" /\ pc.step = 1
    /\ gameState' = [gameState EXCEPT
                        !.roomStates[players[pc.sessionId].currentRoom].coins = 0]
    /\ pc' = [pc EXCEPT !.step = 2]
    /\ UNCHANGED <<players, rooms, spawnTimers, now, loopRest>>

\* coinSpawner.handleCollection, player.lastAction; return
CollectCoinsMark ==
    /\ pc.op = "collectCoins" /\ pc.step = 2
    /\ LET s      == pc.sessionId
           roomId == players[s].currentRoom
           player == [players[s] EXCEPT !.lastAction = now]
       IN  /\ players' = Put(players, s, player)
           /\ gameState' = [gameState EXCEPT
                               !.players = Put(@, s, player),
                               !.roomStates[roomId].lastCoinSpawn = now]
           /\ spawnTimers' = IF rooms[roomId].coins.spawnType = "respawn-timer"
                             THEN startRespawnTimer(spawnTimers, roomId, rooms[roomId].coins)
                             ELSE spawnTimers
    /\ pc' = Idle
    /\ UNCHANGED <<rooms, now, loopRest>>

\* the callbacks that are one step
LoopRemovePlayer == dispatch /\ RemovePlayer

LoopDropCoins == dispatch /\ DropCoins

LoopMoveAllGhosts == dispatch /\ MoveAllGhosts

LoopRespawnTimerFires == dispatch /\ RespawnTimerFires

NextLoop ==
    \/ AddPlayerBegin
    \/ AddPlayerState
    \/ AddPlayerLock
    \/ CollectCoinsBegin
    \/ CollectCoinsZero
    \/ CollectCoinsMark
    \/ LoopRemovePlayer
    \/ LoopDropCoins
    \/ LoopMoveAllGhosts
    \/ LoopRespawnTimerFires
    \/ Autosave

SpecLoop == InitCoins /\ [][NextLoop]_vars

\* the game state a saved file holds
snapshot == JSONparse(files.state.state)

\* C19: a callback starts only when no other is on the stack, so every
\* write of the state file happens between operations and holds the game
\* state of that moment: every player in it has the lock of its character,
\* and the gold in it is never more than the world has given out (a collect
\* that credited the player has zeroed the room)
C19_SnapshotBetweenOperations ==
    /\ [][files' # files =>
              /\ pc = Idle
              /\ files'.state = SavedState(gameState)
              /\ gameState' = gameState /\ players' = players]_vars
    /\ [](files.state.kind = "json" =>
              /\ \A s \in DOMAIN snapshot.players :
                     /\ snapshot.players[s].characterId \in DOMAIN snapshot.characterLocks
                     /\ snapshot.characterLocks[snapshot.players[s].characterId].sessionId = s
              /\ TotalGold(snapshot.players, snapshot)
                     <= StartGold * (1 + files.state.state.lastSaved \div DEFAULT_RESPAWN_INTERVAL))

\* a collection is half done (the player is credited, the room not yet
\* zeroed) while the file holds the state saved before it began
C19_Witness ==
    /\ pc.op = "collectCoins" /\ pc.step = 1
    /\ files.state.kind = "json"
    /\ snapshot.players # EmptyMap
    /\ TotalGold(players, gameState) > StartGold
    /\ TotalGold(snapshot.players, snapshot) = StartGold

disconnectedPlayer(old) ==
    socketState[old] = "closed" /\ old \in DOMAIN players

\* C21: a user who comes back on a new connection while the player of the
\* closed one is still in the game gets that player's character
C21_ReconnectKeepsCharacter ==
    \A old \in SessionIds, s \in SessionIds :
        ( /\ disconnectedPlayer(old)
          /\ socketState[s] = "connected"
          /\ s \in DOMAIN sessions
          /\ sessions[s].username = players[old].username )
        => \/ addPlayer(s, sessions[s].username, players[old].characterId).success
           \/ /\ s \in DOMAIN players
              /\ players[s].characterId = players[old].characterId

(***************************************************************************)
(* The room events of a move, under SpecSession.                           *)
(***************************************************************************)
\* a broadcast that does not leave out the excluded session
broadcastToRoomAll(ps, roomId, excludeSessionId) ==
    {s \in DOMAIN ps : ps[s].currentRoom = roomId /\ socketState[s] = "connected"}

\* GameEngine.broadcastToRoom: the sessions the event is emitted to, the
\* players of the room but the excluded one, as far as their socket exists
broadcastToRoom(ps, roomId, excludeSessionId) ==
    {s \in DOMAIN ps : /\ ps[s].currentRoom = roomId
                       /\ s # excludeSessionId
                       /\ socketState[s] = "connected"}

\* the broadcasts of a movePlayer call that passes its checks, in the order
\* of the calls: the unlock message, the departure, the update of the
\* player, the arrival
moveBroadcasts(sessionId, direction) ==
    LET player     == players[sessionId]
        oldRoom    == player.currentRoom
        lockStatus == isExitLocked(rooms[oldRoom], direction, player.inventory)
        dest       == rooms[oldRoom].exits[direction].to
        moved      == Put(players, sessionId,
                          [player EXCEPT !.currentRoom = dest, !.lastAction = now])
        unlock     == IF lockStatus.locked
                      THEN <<[message |-> "unlocks", room |-> oldRoom,
                              to |-> broadcastToRoom(players, oldRoom, sessionId)]>>
                      ELSE <<>>
    IN  unlock \o
        <<[message |-> "leaves", room |-> oldRoom,
           to |-> broadcastToRoom(players, oldRoom, sessionId)],
          [message |-> "arrives", room |-> dest,
           to |-> broadcastToRoom(moved, dest, sessionId)]>>

\* the connected sessions of the players of a room other than one session
othersIn(roomId, sessionId) ==
    {s \in DOMAIN players \ {sessionId} :
        players[s].currentRoom = roomId /\ socketState[s] = "connected"}

\* C22: on a successful move the departure goes to every other connected
\* session of the old room, then the arrival to every other connected
\* session of the new room, the mover gets neither, and the mover is in the
\* destination with lastAction set when the encounter is decided on the
\* ghosts of the destination
C22_MoveEvents ==
    \A s \in DOMAIN players, d \in DirSet, draw \in MoveDraws :
        LET r == movePlayer(s, d, draw[1], draw[2])
        IN  r.success =>
                LET ev      == moveBroadcasts(s, d)
                    oldRoom == players[s].currentRoom
                    dest    == rooms[oldRoom].exits[d].to
                    leaves  == {i \in DOMAIN ev : ev[i].message = "leaves"}
                    arrives == {i \in DOMAIN ev : ev[i].message = "arrives"}
                IN  /\ Cardinality(leaves) = 1 /\ Cardinality(arrives) = 1
                    /\ \A i \in leaves, j \in arrives :
                           /\ i < j
                           /\ ev[i].to = othersIn(oldRoom, s)
                           /\ ev[j].to = othersIn(dest, s)
                    /\ \A i \in DOMAIN ev : s \notin ev[i].to
                    /\ r.players[s].currentRoom = dest
                    /\ r.players[s].lastAction = now
                    /\ (r.encounter = "null")
                           <=> ~\E g \in DOMAIN ghosts : ghosts[g].currentRoom = dest
                    /\ (r.encounter = "encounter" /\ players[s].inventory.gold > 0)
                           => r.players[s].inventory.gold < players[s].inventory.gold

\* two connected players stand in a room that is not the starting room: the
\* second to arrive was announced to the first
C22_Witness ==
    \E s1 \in DOMAIN players, s2 \in DOMAIN players :
        /\ s1 # s2
        /\ socketState[s1] = "connected" /\ socketState[s2] = "connected"
        /\ players[s1].currentRoom = players[s2].currentRoom
        /\ players[s1].currentRoom # startingRoom

(***************************************************************************)
(* SpecInteract: the engine over a room whose objects carry one interaction *)
(* restricted to a state and one without a validStates list.                *)
(***************************************************************************)
\* world data of the form canInteractWith reads: an interaction without
\* validStates and without effects
PlainObject(id, name, verb) ==
    [id |-> id, name |-> name, state |-> "silent",
     interactions |-> [v \in {verb} |->
         [validStates |-> {}, newState |-> "undefined", giveItem |-> "undefined",
          spawnCoins |-> 0]]]

InteractWorld ==
    [rooms |-> [TimedWorld.rooms EXCEPT
                   ![startingRoom].objects =
                       <<GivingObject("chest", "Wooden Chest", "brass_key", 1),
                         PlainObject("bell", "bell", "ring")>>],
     locks |-> <<>>]

InteractNames == {"chest", "WOODEN CHEST", "bell", "hook"}

InteractVerbs == {"open", "ring", "push"}

InitInteract ==
    /\ NoAsync
    /\ phase = "running"
    /\ rooms = InteractWorld.rooms
    /\ locks = InteractWorld.locks
    /\ lockCount = Len(locks)
    /\ lockIter = Len(locks)
    /\ \E g \in GhostDraws(rooms) :
          /\ ghosts = g
          /\ gameState = [createInitialState(rooms) EXCEPT !.ghostLocations = getAllLocations(g)]
    /\ players = EmptyMap
    /\ spawnTimers = EmptyMap
    /\ now = 0
    /\ SessionIdle
    /\ files = [world |-> [kind |-> "json", rooms |-> rooms],
                state |-> SavedState(createInitialState(rooms))]
    /\ pc = Idle
    /\ autosaveTimer = TRUE

Interact ==
    \E s \in SessionIds, v \in InteractVerbs, o \in InteractNames :
        /\ players' = interactWithObject(s, v, o).players
        /\ Leaves(interactWithObject(s, v, o))

NextInteract ==
    \/ AddPlayer
    \/ MovePlayer
    \/ Interact
    \/ CollectCoins
    \/ DropCoins
    \/ RespawnTimerFires

SpecInteract == InitInteract /\ [][NextInteract]_vars

\* the objects of a room that a name designates, by name or by id
named(roomId, objectName) ==
    {i \in DOMAIN rooms[roomId].objects :
        \/ Lower(rooms[roomId].objects[i].name) = Lower(objectName)
        \/ Lower(rooms[roomId].objects[i].id) = Lower(objectName)}

\* the runtime state of an object of a room
runtimeState(roomId, object) ==
    IF object.id \in DOMAIN gameState.roomStates[roomId].objectStates
    THEN gameState.roomStates[roomId].objectStates[object.id]
    ELSE object.state

\* C23: interactWithObject fails and changes nothing when the room of the
\* player has no object of that name or id, when the object does not define
\* the verb, or when the verb lists valid states and the runtime state of the
\* object is not one of them; otherwise it succeeds and applies the new
\* state, the item and the coins of the interaction in one step
C23_InteractAllOrNothing ==
    \A s \in DOMAIN players, v \in InteractVerbs, o \in InteractNames :
        LET r      == interactWithObject(s, v, o)
            roomId == players[s].currentRoom
            hits   == named(roomId, o)
        IN  IF hits = {}
            THEN ~r.success /\ r.players = players /\ r.gameState = gameState
            ELSE LET object == rooms[roomId].objects[CHOOSE i \in hits : \A j \in hits : i <= j]
                     state  == runtimeState(roomId, object)
                 IN  IF \/ v \notin DOMAIN object.interactions
                        \/ /\ object.interactions[v].validStates # {}
                           /\ state \notin object.interactions[v].validStates
                     THEN ~r.success /\ r.players = players /\ r.gameState = gameState
                     ELSE LET i  == object.interactions[v]
                              rs == r.gameState.roomStates[roomId]
                          IN  /\ r.success
                              /\ i.newState # "undefined" =>
                                    /\ object.id \in DOMAIN rs.objectStates
                                    /\ rs.objectStates[object.id] = i.newState
                              /\ i.newState = "undefined" =>
                                    rs.objectStates = gameState.roomStates[roomId].objectStates
                              /\ r.players[s].inventory.items =
                                    IF i.giveItem # "undefined"
                                    THEN Append(players[s].inventory.items, i.giveItem)
                                    ELSE players[s].inventory.items
                              /\ rs.coins = gameState.roomStates[roomId].coins + i.spawnCoins
                              /\ r.players[s].inventory.gold = players[s].inventory.gold
                              /\ \A other \in DOMAIN gameState.roomStates \ {roomId} :
                                    r.gameState.roomStates[other] = gameState.roomStates[other]
                              /\ \A p \in DOMAIN players \ {s} : r.players[p] = players[p]

\* the chest has been opened: a player holds its item and the chest is open,
\* so that "open" is refused from now on while "ring" is still accepted
C23_Witness ==
    /\ "chest" \in DOMAIN gameState.roomStates[startingRoom].objectStates
    /\ gameState.roomStates[startingRoom].objectStates["chest"] = "open"
    /\ \E s \in DOMAIN players :
          /\ players[s].currentRoom = startingRoom
          /\ players[s].inventory.items = <<"brass_key">>
          /\ ~interactWithObject(s, "open", "chest").success
          /\ interactWithObject(s, "ring", "bell").success

\* the outcome r leaves everything but the lastAction of the player of
\* sessionId as it is
onlyLastAction(r, sessionId) ==
    /\ DOMAIN r.players = DOMAIN players
    /\ \A p \in DOMAIN players \ {sessionId} : r.players[p] = players[p]
    /\ r.players[sessionId] = [players[sessionId] EXCEPT !.lastAction = now]
    /\ DOMAIN r.gameState.players = DOMAIN gameState.players
    /\ \A p \in DOMAIN gameState.players \ {sessionId} :
          r.gameState.players[p] = gameState.players[p]
    /\ [r.gameState.players[sessionId] EXCEPT !.lastAction = 0] =
          [gameState.players[sessionId] EXCEPT !.lastAction = 0]
    /\ r.gameState.characterLocks = gameState.characterLocks
    /\ r.gameState.roomStates = gameState.roomStates
    /\ r.gameState.ghostLocations = gameState.ghostLocations
    /\ r.rooms = rooms
    /\ r.spawnTimers = spawnTimers

\* C24: for a player, say and performAction with a known verb succeed and
\* change the lastAction of the caller and nothing else (no room, gold, items
\* or status of any player, no room state, no exit, no lock, no timer);
\* performAction with an unknown verb fails and changes nothing
C24_SayActionFrame ==
    \A s \in DOMAIN players :
        /\ \A message \in Messages :
              say(s, message).success /\ onlyLastAction(say(s, message), s)
        /\ \A verb \in ActionInputs :
              LET r == performAction(s, verb)
              IN  IF verb \in actionVerbs
                  THEN r.success /\ onlyLastAction(r, s)
                  ELSE /\ ~r.success /\ r.error = Err("Unknown action")
                       /\ r.players = players /\ r.gameState = gameState
                       /\ r.rooms = rooms /\ r.spawnTimers = spawnTimers

\* a player with gold and an item-bearing history whose last action is older
\* than the clock, in a room with someone else: say and a known verb move the
\* lastAction, the unknown verb is refused
C24_Witness ==
    \E s \in DOMAIN players, other \in DOMAIN players :
        /\ other # s
        /\ players[other].currentRoom = players[s].currentRoom
        /\ players[s].inventory.gold > 0
        /\ players[s].lastAction < now
        /\ say(s, "hello").players[s].lastAction = now
        /\ performAction(s, "wave").success
        /\ ~performAction(s, "fly").success

(***************************************************************************)
(* SpecInitialOnly: the engine and the restarting server over a world whose *)
(* starting room is initial-only and whose other room is on a respawn timer.*)
(***************************************************************************)
OnceGold == 3

\* TimedWorld with the coin configurations the other way round: the starting
\* room, with its object, is initial-only and holds OnceGold coins
OnceWorld ==
    [rooms |-> [TimedWorld.rooms EXCEPT
                   ![startingRoom].coins =
                       [spawnType |-> "initial-only", amount |-> OnceGold,
                        respawnInterval |-> 0],
                   ![1].coins = TimedWorld.rooms[startingRoom].coins],
     locks |-> <<>>]

\* the time of the server start
StartTime == 0

\* a state file saved right after the coins of the respawn-timer room were
\* collected, at time 0
CollectedBefore ==
    [createInitialState(OnceWorld.rooms) EXCEPT !.roomStates[1].coins = 0,
                                                !.roomStates[1].lastCoinSpawn = 0]

\* initializeServer on that state file at StartTime: coinSpawner.initialize
\* arms the timer of the pending room
InitInitialOnly ==
    /\ NoAsync
    /\ phase = "running"
    /\ rooms = OnceWorld.rooms
    /\ locks = OnceWorld.locks
    /\ lockCount = Len(locks)
    /\ lockIter = Len(locks)
    /\ now = StartTime
    /\ files = [world |-> [kind |-> "json", rooms |-> OnceWorld.rooms],
                state |-> [kind |-> "json", state |-> JSONstringify(CollectedBefore, 0)]]
    /\ \E g \in GhostDraws(rooms) :
          LET loaded == loadState(files, TRUE).gameState
              r      == coinSpawnerInitializeAt(OnceWorld.rooms, loaded, StartTime)
          IN  /\ ghosts = g
              /\ gameState = withGhostLocations(r.gameState, g)
              /\ spawnTimers = r.spawnTimers
    /\ players = EmptyMap
    /\ SessionIdle
    /\ pc = Idle
    /\ autosaveTimer = TRUE

\* gracefulShutdown and initializeServer on the world data of the running
\* server after a downtime
RestartOnWorld ==
    \E downtime \in Downtimes, g \in GhostDraws(rooms) :
        /\ now + downtime <= MaxClock
        /\ LET saved  == saveState(files, gameState, TRUE).files
               loaded == loadState(saved, TRUE).gameState
               r      == coinSpawnerInitializeAt(rooms, loaded, now + downtime)
           IN  /\ files' = saved
               /\ gameState' = withGhostLocations(r.gameState, g)
               /\ spawnTimers' = r.spawnTimers
        /\ now' = now + downtime
        /\ players' = EmptyMap
        /\ ghosts' = g
        /\ UNCHANGED <<phase, rooms, locks, lockCount, lockIter, sessionVars, loopVars>>

NextInitialOnly ==
    \/ AddPlayer
    \/ InteractWithObject
    \/ CollectCoins
    \/ DropCoins
    \/ RespawnTimerFires
    \/ RestartOnWorld

SpecInitialOnly == InitInitialOnly /\ [][NextInitialOnly]_vars

initialOnlyRooms == {id \in DOMAIN rooms : rooms[id].coins.spawnType = "initial-only"}

\* the coins the room would hold after a collect, a drop or an interaction
\* of one of the players in it
coinsByPlayers(roomId) ==
    UNION {{collectCoins(s).gameState.roomStates[roomId].coins,
            dropCoins(s).gameState.roomStates[roomId].coins}
           \cup {interactWithObject(s, v, o).gameState.roomStates[roomId].coins :
                    v \in Verbs, o \in ObjectNames} :
           s \in {p \in DOMAIN players : players[p].currentRoom = roomId}}

\* C25: an initial-only room never has a respawn timer, neither after a
\* collection nor after a restart; no timer callback and no restart restores
\* its coins; and every step that changes its coins is a collect, a drop or
\* an interaction of a player in the room
C25_InitialOnlyNeverRespawns ==
    /\ [](\A roomId \in initialOnlyRooms :
            /\ roomId \notin DOMAIN spawnTimers
            /\ \A s \in DOMAIN players :
                  roomId \notin DOMAIN collectCoins(s).spawnTimers
            /\ \A downtime \in Downtimes :
                  LET r == coinSpawnerInitializeAt(rooms, gameState, now + downtime)
                  IN  /\ roomId \notin DOMAIN r.spawnTimers
                      /\ r.gameState.roomStates[roomId] = gameState.roomStates[roomId])
    /\ [][\A roomId \in initialOnlyRooms :
            gameState'.roomStates[roomId].coins # gameState.roomStates[roomId].coins
                => gameState'.roomStates[roomId].coins \in coinsByPlayers(roomId)]_vars

\* the coins of the initial-only room were collected at least a whole
\* respawn interval ago, the server has been restarted since, and the room is
\* still empty
C25_Witness ==
    \E roomId \in initialOnlyRooms :
        /\ gameState.roomStates[roomId].coins = 0
        /\ gameState.roomStates[roomId].lastCoinSpawn # -1
        /\ now - gameState.roomStates[roomId].lastCoinSpawn >= DEFAULT_RESPAWN_INTERVAL
        /\ players = EmptyMap
        /\ gameState.players # EmptyMap
        /\ JSONparse(files.state.state).roomStates[roomId].coins = 0

(***************************************************************************)
(* SpecGhosts: the ghosts of GhostManager.initialize, three to five of      *)
(* them, on their movement timer while one player unlocks an exit.          *)
(***************************************************************************)
\* GhostManager.MIN_GHOSTS and MAX_GHOSTS
GHOST_COUNT_MIN == 3

GHOST_COUNT_MAX == 5

\* the players of this run
MaxGhostPlayers == 1

\* GhostManager.initialize with the ghost counts of the program: every
\* count and every start room
ghostManagerInitialize(rs) ==
    UNION { {[i \in 1..k |-> createGhost(i - 1, at[i])] : at \in [1..k -> DOMAIN rs]}
            : k \in GHOST_COUNT_MIN..GHOST_COUNT_MAX }

InitGhosts ==
    /\ NoAsync
    /\ phase = "running"
    /\ rooms = ChestWorld(ENGINE_ROOMS).rooms
    /\ locks = ChestWorld(ENGINE_ROOMS).locks
    /\ lockCount = Len(locks)
    /\ lockIter = Len(locks)
    /\ \E g \in ghostManagerInitialize(rooms) :
          /\ ghosts = g
          /\ gameState = [createInitialState(rooms) EXCEPT !.ghostLocations = getAllLocations(g)]
    /\ players = EmptyMap
    /\ spawnTimers = EmptyMap
    /\ now = 0
    /\ SessionIdle
    /\ files = [world |-> NoFile, state |-> SavedState(createInitialState(rooms))]
    /\ pc = Idle
    /\ autosaveTimer = TRUE

\* addPlayer while fewer than MaxGhostPlayers players are in the game
AddGhostPlayer == Cardinality(DOMAIN players) < MaxGhostPlayers /\ AddPlayer

NextGhosts ==
    \/ AddGhostPlayer
    \/ InteractWithObject
    \/ MovePlayer
    \/ MoveAllGhosts

SpecGhosts == InitGhosts /\ [][NextGhosts]_vars

\* the directions of the exits of a room that are not locked
openExits(roomId) ==
    {d \in DirSet : HasExit(rooms[roomId], d) /\ rooms[roomId].exits[d].type # "locked"}

\* C26: after every movement tick each ghost that had a non-locked exit is
\* at the destination of one of the non-locked exits of its room and each
\* other ghost is where it was, so no ghost crosses a locked exit; the
\* location table names the room of every ghost, a room of the world; and
\* the ghosts, three to five of them, stay the same ghosts on every step
C26_GhostMovement ==
    /\ [](/\ Len(ghosts) \in GHOST_COUNT_MIN..GHOST_COUNT_MAX
          /\ DOMAIN gameState.ghostLocations = {ghosts[i].id : i \in DOMAIN ghosts}
          /\ \A i \in DOMAIN ghosts :
                /\ gameState.ghostLocations[ghosts[i].id] = ghosts[i].currentRoom
                /\ ghosts[i].currentRoom \in DOMAIN rooms
          /\ \A i, j \in DOMAIN ghosts : ghosts[i].id = ghosts[j].id => i = j
          /\ \A i \in DOMAIN ghosts :
                LET from == ghosts[i].currentRoom
                IN  \A g \in moveGhost(ghosts[i]) :
                        /\ g.id = ghosts[i].id
                        /\ IF openExits(from) = {}
                           THEN g = ghosts[i]
                           ELSE /\ g.movesSinceSpawn = ghosts[i].movesSinceSpawn + 1
                                /\ \E d \in openExits(from) :
                                       g.currentRoom = rooms[from].exits[d].to)
    /\ [][/\ Len(ghosts') = Len(ghosts)
          /\ \A i \in DOMAIN ghosts :
                /\ ghosts'[i].id = ghosts[i].id
                /\ ghosts'[i] \in moveGhost(ghosts[i]) \cup {ghosts[i]}
                /\ ghosts'[i].currentRoom # ghosts[i].currentRoom =>
                      \E d \in openExits(ghosts[i].currentRoom) :
                          ghosts'[i].currentRoom = rooms[ghosts[i].currentRoom].exits[d].to]_vars

\* after a tick one ghost stands behind an exit that is still locked on its
\* side and has not moved, while another ghost has moved through the exit
\* the player opened
C26_Witness ==
    /\ \E r \in DOMAIN rooms, d \in DirSet :
          /\ rooms[r].exits[d].type = "locked"
          /\ rooms[rooms[r].exits[d].to].exits[getReverseDirection(d)].type = "open"
    /\ \E i \in DOMAIN ghosts :
          ghosts[i].movesSinceSpawn = 0 /\ openExits(ghosts[i].currentRoom) = {}
    /\ \E i \in DOMAIN ghosts : ghosts[i].movesSinceSpawn > 0
    /\ Len(ghosts) = GHOST_COUNT_MAX

(***************************************************************************)
(* Keys after an unlocking move, under Spec.                                *)
(***************************************************************************)
\* C27: a successful move through a locked exit leaves the items of the
\* mover as they were, so the mover still holds the item that opened the
\* exit and every exit locked on that item can still be unlocked with it; the
\* items of the other players and the items lying in the rooms are the same
C27_KeyNotConsumed ==
    \A s \in DOMAIN players, d \in DirSet, w \in MoveDraws :
        LET r    == movePlayer(s, d, w[1], w[2])
            from == players[s].currentRoom
            exit == rooms[from].exits[d]
        IN  (r.success /\ exit.type = "locked") =>
                /\ r.players[s].inventory.items = players[s].inventory.items
                /\ r.gameState.players[s].inventory.items = players[s].inventory.items
                /\ holdsItem(r.players[s], exit.requiredItem)
                /\ \A id \in DOMAIN r.rooms, e \in DirSet :
                      ( /\ r.rooms[id].exits[e].type = "locked"
                        /\ r.rooms[id].exits[e].requiredItem = exit.requiredItem )
                      => isExitLocked(r.rooms[id], e, r.players[s].inventory).canUnlock
                /\ \A p \in DOMAIN players \ {s} : r.players[p] = players[p]
                /\ \A id \in DOMAIN rooms : r.rooms[id].items = rooms[id].items
                /\ r.rooms[from].exits[d].type = "open"

\* a player has gone through the exit locked on the item, still holds the
\* item on the other side, and the exit back is locked on it
C27_Witness ==
    \E s \in DOMAIN players, d \in DirSet :
        LET here == players[s].currentRoom
            back == rooms[here].exits[d]
        IN  /\ back.type = "locked"
            /\ back.requiredItem # "undefined"
            /\ holdsItem(players[s], back.requiredItem)
            /\ unlockedExit(Mirror(rooms, here, d))

(***************************************************************************)
(* MinimapGenerator (generateWithState) and SpecMinimap: one player walks   *)
(* a five-room world, collects and drops coins and asks for the map.        *)
(***************************************************************************)
MAP_SIZE == 5

CENTER == 2

\* the symbol of an unconnected room, U+00B7
MIDDLE_DOT == "middle dot"

\* createGrid: MAP_SIZE rows of MAP_SIZE blanks, indexed from 0
createGrid == [y \in 0..(MAP_SIZE - 1) |-> [x \in 0..(MAP_SIZE - 1) |-> " "]]

\* findRoomAtPosition: the first room with that position, -1 when none
findRoomAtPosition(x, y, rs) ==
    LET hit == {id \in DOMAIN rs : rs[id].position # NullPos
                                   /\ rs[id].position.x = x /\ rs[id].position.y = y}
    IN  IF hit = {} THEN -1 ELSE CHOOSE id \in hit : \A o \in hit : id <= o

isConnectedToCurrentRoom(rs, room, currentRoom) ==
    \/ \E d \in DirSet : HasExit(rs[currentRoom], d) /\ rs[currentRoom].exits[d].to = room
    \/ \E d \in DirSet : HasExit(rs[room], d) /\ rs[room].exits[d].to = currentRoom

hasLockedDoor(rs, room) ==
    \E d \in DirSet : HasExit(rs[room], d) /\ rs[room].exits[d].type = "locked"

\* getRoomSymbol: the symbol from the configured coins of the room
getRoomSymbolStatic(room, currentRoom, rs, gs) ==
    IF hasLockedDoor(rs, room) THEN "#"
    ELSE IF Len(rs[room].items) > 0 THEN "?"
    ELSE IF rs[room].coins.amount > 0 THEN "$"
    ELSE IF isConnectedToCurrentRoom(rs, room, currentRoom) THEN "."
    ELSE MIDDLE_DOT

getRoomSymbolWithState(room, currentRoom, rs, gs) ==
    LET hasCoins == /\ room \in DOMAIN gs.roomStates
                    /\ gs.roomStates[room].coins > 0
    IN  IF hasLockedDoor(rs, room) THEN "#"
        ELSE IF Len(rs[room].items) > 0 THEN "?"
        ELSE IF hasCoins THEN "$"
        ELSE IF isConnectedToCurrentRoom(rs, room, currentRoom) THEN "."
        ELSE MIDDLE_DOT

\* renderGrid: the border (its box-drawing characters written in ASCII), the
\* rows with a blank between the cells, the border and the legend
renderGrid(grid) ==
    [top    |-> "+---------+",
     rows   |-> [y \in 0..(MAP_SIZE - 1) |->
                    [k \in 0..(2 * MAP_SIZE - 2) |->
                        IF k % 2 = 0 THEN grid[y][k \div 2] ELSE " "]],
     bottom |-> "+---------+",
     footer |-> "Legend:"]

\* generateEmptyMap: question marks around the player and no legend
generateEmptyMap ==
    [top    |-> "+---------+",
     rows   |-> [y \in 0..(MAP_SIZE - 1) |->
                    [k \in 0..(2 * MAP_SIZE - 2) |->
                        IF y = CENTER
                        THEN (IF k = 4 THEN "@" ELSE IF k \in {2, 6} THEN "?" ELSE " ")
                        ELSE (IF k = 4 THEN "?" ELSE " ")]],
     bottom |-> "+---------+",
     footer |-> "Map data unavailable"]

generateWithState(currentRoom, rs, gs) ==
    IF rs[currentRoom].position = NullPos THEN generateEmptyMap
    ELSE LET centerX == rs[currentRoom].position.x
             centerY == rs[currentRoom].position.y
             cell(gridX, gridY) ==
                 LET room == findRoomAtPosition(centerX + (gridX - CENTER),
                                                centerY + (gridY - CENTER), rs)
                 IN  IF room = -1 THEN createGrid[gridY][gridX]
                     ELSE IF gridX = CENTER /\ gridY = CENTER THEN "@"
                     ELSE getRoomSymbolWithState(room, currentRoom, rs, gs)
         IN  renderGrid([y \in 0..(MAP_SIZE - 1) |-> [x \in 0..(MAP_SIZE - 1) |-> cell(x, y)]])

\* GameEngine.getMinimap
getMinimap(sessionId) ==
    IF sessionId \notin DOMAIN players
    THEN [success |-> FALSE, error |-> Err("Player not found"), minimap |-> "undefined"]
    ELSE IF players[sessionId].currentRoom \notin DOMAIN rooms
    THEN [success |-> FALSE, error |-> Err("Current room not found"), minimap |-> "undefined"]
    ELSE [success |-> TRUE, error |-> NoError,
          minimap |-> generateWithState(players[sessionId].currentRoom, rooms, gameState)]

\* the players of this run
MaxMapPlayers == 1

\* the generated world with one lock, and a second item and coins in its
\* last room
MapWorld ==
    LET w    == ProceduralWorld(WORLD_ROOMS)
        last == WORLD_ROOMS - 1
        pool == generateItemPool(2)
    IN  [rooms |-> [w.rooms EXCEPT ![last].items = Append(@, pool[2]),
                                   ![last].coins.amount = StartGold],
         locks |-> w.locks]

\* world data in which one room has no position
MapWorldNoPosition ==
    [rooms |-> [MapWorld.rooms EXCEPT ![WORLD_ROOMS - 2].position = NullPos],
     locks |-> MapWorld.locks]

InitMinimap ==
    /\ NoAsync
    /\ phase = "running"
    /\ \E w \in {MapWorld, MapWorldNoPosition} :
          /\ rooms = w.rooms
          /\ locks = w.locks
          /\ lockCount = Len(w.locks)
          /\ lockIter = Len(w.locks)
          /\ \E g \in GhostDraws(w.rooms) :
                /\ ghosts = g
                /\ gameState = [createInitialState(w.rooms) EXCEPT
                                   !.ghostLocations = getAllLocations(g)]
    /\ players = EmptyMap
    /\ spawnTimers = EmptyMap
    /\ now = 0
    /\ SessionIdle
    /\ files = [world |-> NoFile, state |-> SavedState(createInitialState(rooms))]
    /\ pc = Idle
    /\ autosaveTimer = TRUE

\* addPlayer while fewer than MaxMapPlayers players are in the game
AddMapPlayer == Cardinality(DOMAIN players) < MaxMapPlayers /\ AddPlayer

\* the map command: the engine state is only read
GetMinimap ==
    \E s \in SessionIds :
        /\ getMinimap(s).success
        /\ UNCHANGED vars

NextMinimap ==
    \/ AddMapPlayer
    \/ MovePlayer
    \/ CollectCoins
    \/ DropCoins
    \/ GetMinimap

SpecMinimap == InitMinimap /\ [][NextMinimap]_vars

\* the room shown in cell (gridX, gridY) of the window around a room
roomInCell(currentRoom, gridX, gridY) ==
    {id \in DOMAIN rooms :
        /\ rooms[id].position # NullPos
        /\ rooms[id].position.x = rooms[currentRoom].position.x + gridX - CENTER
        /\ rooms[id].position.y = rooms[currentRoom].position.y + gridY - CENTER}

\* the symbol the legend gives a room seen from another one
legendSymbol(id, currentRoom) ==
    LET locked    == \E d \in DirSet : rooms[id].exits[d].type = "locked"
        items     == rooms[id].items # <<>>
        coins     == gameState.roomStates[id].coins > 0
        connected == \E d \in DirSet : \/ rooms[id].exits[d].to = currentRoom
                                       \/ rooms[currentRoom].exits[d].to = id
    IN  CASE locked -> "#"
          [] ~locked /\ items -> "?"
          [] ~locked /\ ~items /\ coins -> "$"
          [] ~locked /\ ~items /\ ~coins /\ connected -> "."
          [] ~locked /\ ~items /\ ~coins /\ ~connected -> MIDDLE_DOT

\* C28: the map of a player whose room has a position shows, in every cell
\* of the 5x5 window, a blank when no room is at that position, '@' in the
\* centre, and otherwise '#' for a room with a locked exit, else '?' for a
\* room with items, else '$' for a room whose runtime coins are above 0,
\* else '.' for a room that shares an exit with the current room, else the
\* middle dot; the map of a player whose room has no position is the fixed
\* placeholder
C28_MinimapSymbols ==
    \A s \in DOMAIN players :
        LET cur == players[s].currentRoom
            map == getMinimap(s).minimap
        IN  /\ getMinimap(s).success
            /\ IF rooms[cur].position = NullPos
               THEN map = generateEmptyMap
               ELSE /\ map.footer = "Legend:"
                    /\ \A gridX \in 0..(MAP_SIZE - 1), gridY \in 0..(MAP_SIZE - 1) :
                          LET shown == map.rows[gridY][2 * gridX]
                              here  == roomInCell(cur, gridX, gridY)
                          IN  /\ here = {} => shown = " "
                              /\ (here # {} /\ gridX = CENTER /\ gridY = CENTER) => shown = "@"
                              /\ (here # {} /\ ~(gridX = CENTER /\ gridY = CENTER)) =>
                                    \E id \in here : shown = legendSymbol(id, cur)

\* a player sees, from one room, a room with a locked exit that also has
\* items, a room with items and coins, a room with dropped coins only and a
\* room that is neither connected nor holds anything
C28_Witness ==
    \E s \in DOMAIN players :
        LET cur     == players[s].currentRoom
            map     == getMinimap(s).minimap
            symbols == {map.rows[y][2 * x] : x \in 0..(MAP_SIZE - 1), y \in 0..(MAP_SIZE - 1)}
        IN  /\ rooms[cur].position # NullPos
            /\ {"#", "?", "$", MIDDLE_DOT, "@", " "} \subseteq symbols
            /\ \E id \in DOMAIN rooms :
                  /\ rooms[id].coins.amount = 0
                  /\ gameState.roomStates[id].coins > 0
                  /\ legendSymbol(id, cur) = "$"

\* a player in the room without a position gets the placeholder
C28_WitnessPlaceholder ==
    \E s \in DOMAIN players :
        /\ rooms[players[s].currentRoom].position = NullPos
        /\ getMinimap(s).minimap.footer = "Map data unavailable"

(***************************************************************************)
(* GoldDistributor.generateGoldAmount in fixed point, and SpecGold: the     *)
(* loop of distribute over the rooms of a generated map.                    *)
(***************************************************************************)
MEAN == 5

\* STD_DEV (2.5) in tenths
STD_DEV_TENTHS == 25

\* rooms of the map the gold is distributed on
GOLD_ROOMS == 3

\* the step between two sampled radii and between two sampled cosines, in
\* thousandths
RadiusStep == 200

CosineStep == 250

\* Math.sqrt(-2.0 * Math.log(u1)) at u1 = 2^-53, the smallest positive value
\* of Math.random(), in thousandths
MaxRadius == 8572

\* Infinity and -Infinity: numbers beyond every finite value that occurs
Infinity == 1000000000

NegInfinity == 0 - Infinity

\* Math.sqrt(-2.0 * Math.log(u1)) for u1 in [0, 1): Infinity for u1 = 0
\* (Math.log(0) is -Infinity), else a number from 0 to MaxRadius, in
\* thousandths
RadiusSamples ==
    {Infinity} \cup {MaxRadius} \cup {k * RadiusStep : k \in 0..(MaxRadius \div RadiusStep)}

\* Math.cos(2.0 * Math.PI * u2): a sign and a magnitude of at most 1, in
\* thousandths; the result is never exactly 0, where its magnitude is below
\* a thousandth it still has a sign
CosineSamples ==
    [sign : {-1, 1}, milli : {k * CosineStep : k \in 0..(1000 \div CosineStep)}]

\* z0 = radius * cosine, in thousandths
boxMuller(radius, cosine) ==
    IF radius = Infinity
    THEN (IF cosine.sign > 0 THEN Infinity ELSE NegInfinity)
    ELSE cosine.sign * ((radius * cosine.milli) \div 1000)

\* Math.round(z0 * STD_DEV + MEAN): the nearest integer, halves upwards
roundedGold(z0) ==
    IF z0 \in {Infinity, NegInfinity} THEN z0
    ELSE (z0 * STD_DEV_TENTHS + MEAN * 10000 + 5000) \div 10000

mathMin(a, b) == IF a < b THEN a ELSE b

mathMax(a, b) == IF a > b THEN a ELSE b

\* a generateGoldAmount without its clamp
generateGoldAmountUnclamped(radius, cosine) == roundedGold(boxMuller(radius, cosine))

generateGoldAmount(radius, cosine) ==
    mathMax(MIN_GOLD, mathMin(MAX_GOLD, roundedGold(boxMuller(radius, cosine))))

\* generateProceduralWorld after mapGenerator.generate
InitGold ==
    /\ NoAsync
    /\ phase = "generated"
    /\ \E t \in {CHOOSE x \in TargetAssignments(GOLD_ROOMS) : TRUE} :
           rooms = generate(GOLD_ROOMS, t)
    /\ locks = <<>>
    /\ lockCount = -1
    /\ lockIter = 0
    /\ EngineIdle
    /\ files = [world |-> NoFile, state |-> NoStateFile]
    /\ pc = Running("distribute", "none", 0)
    /\ autosaveTimer = FALSE

\* one round of the loop of distribute: two samples, one amount
GenerateGoldAmount ==
    \E radius \in RadiusSamples, cosine \in CosineSamples :
        /\ phase = "generated"
        /\ pc.op = "distribute"
        /\ pc.step < GOLD_ROOMS - 1
        /\ rooms' = [rooms EXCEPT ![pc.step].coins.amount = generateGoldAmount(radius, cosine)]
        /\ pc' = Running("distribute", "none", pc.step + 1)
        /\ UNCHANGED <<phase, locks, lockCount, lockIter, engineVars, sessionVars, files,
                       autosaveTimer, asyncVars>>

\* the last round: distribute returns the rooms
DistributeReturns ==
    \E radius \in RadiusSamples, cosine \in CosineSamples :
        /\ phase = "generated"
        /\ pc.op = "distribute"
        /\ pc.step = GOLD_ROOMS - 1
        /\ rooms' = [rooms EXCEPT ![pc.step].coins.amount = generateGoldAmount(radius, cosine)]
        /\ pc' = Idle
        /\ phase' = "gold"
        /\ UNCHANGED <<locks, lockCount, lockIter, engineVars, sessionVars, files, autosaveTimer,
                       asyncVars>>

NextGold == GenerateGoldAmount \/ DistributeReturns

SpecGold == InitGold /\ [][NextGold]_vars

\* C29: every amount generateGoldAmount returns, for every pair of samples,
\* and every coins.amount after distribute is an integer from MIN_GOLD to
\* MAX_GOLD
C29_GoldWithinRange ==
    /\ \A radius \in RadiusSamples, cosine \in CosineSamples :
          generateGoldAmount(radius, cosine) \in MIN_GOLD..MAX_GOLD
    /\ phase = "gold" =>
          \A id \in DOMAIN rooms : rooms[id].coins.amount \in MIN_GOLD..MAX_GOLD

\* distribute has returned rooms at both ends of the range and in between,
\* and the samples include values the clamp cuts off on both sides
C29_Witness ==
    /\ phase = "gold"
    /\ \E a, b, c \in DOMAIN rooms :
          /\ rooms[a].coins.amount = MIN_GOLD
          /\ rooms[b].coins.amount = MAX_GOLD
          /\ rooms[c].coins.amount = MEAN + 1
    /\ \E radius \in RadiusSamples \ {Infinity}, cosine \in CosineSamples :
          generateGoldAmountUnclamped(radius, cosine) > MAX_GOLD
    /\ \E radius \in RadiusSamples \ {Infinity}, cosine \in CosineSamples :
          generateGoldAmountUnclamped(radius, cosine) < MIN_GOLD
    /\ generateGoldAmount(Infinity, [sign |-> -1, milli |-> 0]) = MIN_GOLD
    /\ generateGoldAmount(Infinity, [sign |-> 1, milli |-> 0]) = MAX_GOLD

(***************************************************************************)
(* ItemGenerator.distribute with its shuffle, and SpecItems: distribute on  *)
(* room sets of several sizes.                                              *)
(***************************************************************************)
\* the room counts distribute is run on; the largest gives one item more
\* than there are item types
ItemRoomCounts == {2, 3, 7, 12, 21, 22}

\* the rounds of the shuffle, from the first on, that draw freely; the later
\* rounds draw their own index and leave the array alone
ShuffleDepth == 4

\* array with the elements at the 0-based indices i and j exchanged
swapped(array, i, j) ==
    [array EXCEPT ![i + 1] = array[j + 1], ![j + 1] = array[i + 1]]

\* a shuffle that copies array[j] to array[i] and loses array[i]
RECURSIVE shuffleCopying(_, _, _)
shuffleCopying(array, i, draws) ==
    IF i < 1 THEN array
    ELSE shuffleCopying([array EXCEPT ![i + 1] = array[draws[i] + 1]], i - 1, draws)

\* ItemGenerator.shuffle from round i down: draws[i] is
\* Math.floor(Math.random() * (i + 1))
RECURSIVE shuffle(_, _, _)
shuffle(array, i, draws) ==
    IF i < 1 THEN array
    ELSE shuffle(swapped(array, i, draws[i]), i - 1, draws)

\* the draws of the shuffle of n elements: 0, the middle or i itself in the
\* first ShuffleDepth rounds and in the last two, i itself in the others
ShuffleDraws(n) ==
    LET free == {i \in 1..(n - 1) : i > n - 1 - ShuffleDepth \/ i <= 2}
    IN  { [i \in 1..(n - 1) |->
              IF i \notin free THEN i
              ELSE IF c[i] = 0 THEN 0 ELSE IF c[i] = 1 THEN i \div 2 ELSE i]
          : c \in [free -> 0..2] }

\* ItemGenerator.distribute
distributeItems(rs, draws) ==
    LET n        == Cardinality(DOMAIN rs)
        roomIds  == [k \in 1..n |-> k - 1]
        itemPool == generateItemPool(n \div ITEMS_PER_ROOM_RATIO)
    IN  placeItems(rs, itemPool, shuffle(roomIds, n - 1, draws), 1)

\* generateProceduralWorld before itemGenerator.distribute: rooms without
\* items
InitItems ==
    /\ NoAsync
    /\ phase = "gold"
    /\ \E n \in ItemRoomCounts : rooms = [id \in 0..(n - 1) |-> createRoom(1)]
    /\ locks = <<>>
    /\ lockCount = -1
    /\ lockIter = 0
    /\ EngineIdle
    /\ files = [world |-> NoFile, state |-> NoStateFile]
    /\ pc = Idle
    /\ autosaveTimer = FALSE

DistributeItems ==
    /\ phase = "gold"
    /\ \E draws \in ShuffleDraws(Cardinality(DOMAIN rooms)) :
          rooms' = distributeItems(rooms, draws)
    /\ phase' = "items"
    /\ UNCHANGED <<locks, lockCount, lockIter, engineVars, sessionVars, files, loopVars>>

NextItems == DistributeItems

SpecItems == InitItems /\ [][NextItems]_vars

\* the items of the type with the given index in ItemTypes, over all rooms
itemsOfType(t) == {p \in AllItems(rooms) : rooms[p[1]].items[p[2]].type = ItemTypes[t]}

\* C30: after distribute on N rooms, N \div 3 rooms hold one item each and
\* the others none, no two items have the same id, every item has one of the
\* types, and an earlier type has as many items as a later one or one more
C30_ItemsOnePerRoom ==
    phase = "items" =>
        LET n == Cardinality(DOMAIN rooms)
        IN  /\ Cardinality({id \in DOMAIN rooms : Len(rooms[id].items) = 1})
                  = n \div ITEMS_PER_ROOM_RATIO
            /\ \A id \in DOMAIN rooms : Len(rooms[id].items) \in {0, 1}
            /\ \A p, q \in AllItems(rooms) :
                  rooms[p[1]].items[p[2]].id = rooms[q[1]].items[q[2]].id => p = q
            /\ \A p \in AllItems(rooms) :
                  \E t \in DOMAIN ItemTypes : rooms[p[1]].items[p[2]].type = ItemTypes[t]
            /\ \A t, u \in DOMAIN ItemTypes :
                  t < u => Cardinality(itemsOfType(t)) - Cardinality(itemsOfType(u)) \in {0, 1}

\* seven items on twenty-one rooms: two of the first type, one of each
\* other, none of them in the room the unshuffled order would start with
C30_Witness ==
    /\ phase = "items"
    /\ Cardinality(DOMAIN rooms) = 21
    /\ Cardinality(AllItems(rooms)) = 7
    /\ Cardinality(itemsOfType(1)) = 2
    /\ Cardinality(itemsOfType(Len(ItemTypes))) = 1
    /\ rooms[0].items = <<>>
    /\ \E id \in DOMAIN rooms : id > 7 /\ rooms[id].items # <<>>

(***************************************************************************)
(* Refused moves, collections and drops.                                   *)
(***************************************************************************)

\* what a refused call must leave alone: every player's location, lastAction
\* and gold, every room's coins and lastCoinSpawn, and the respawn timers
leavesCoinStateAlone(r) ==
    /\ DOMAIN r.players = DOMAIN players
    /\ \A s \in DOMAIN players :
           /\ r.players[s].currentRoom = players[s].currentRoom
           /\ r.players[s].lastAction = players[s].lastAction
           /\ r.players[s].inventory.gold = players[s].inventory.gold
    /\ DOMAIN r.gameState.roomStates = DOMAIN gameState.roomStates
    /\ \A id \in DOMAIN gameState.roomStates :
           /\ r.gameState.roomStates[id].coins = gameState.roomStates[id].coins
           /\ r.gameState.roomStates[id].lastCoinSpawn = gameState.roomStates[id].lastCoinSpawn
    /\ r.spawnTimers = spawnTimers

\* C31: a movePlayer in a direction with no exit, a collectCoins in a room
\* with 0 coins and a dropCoins by a player with 0 gold each return a failure
\* and leave the player's location, lastAction and gold, the room's coins and
\* lastCoinSpawn, and the respawn timers unchanged
C31_RefusedCallsChangeNothing ==
    \A s \in DOMAIN players :
        /\ \A d \in DirSet : \A roll \in BOOLEAN : \A loss \in LossDraws :
               ~HasExit(rooms[players[s].currentRoom], d)
                   => /\ ~movePlayer(s, d, roll, loss).success
                      /\ movePlayer(s, d, roll, loss).error = Err("You can't go")
                      /\ leavesCoinStateAlone(movePlayer(s, d, roll, loss))
        /\ gameState.roomStates[players[s].currentRoom].coins = 0
               => /\ ~collectCoins(s).success
                  /\ collectCoins(s).error = Err("There are no coins to collect here")
                  /\ leavesCoinStateAlone(collectCoins(s))
        /\ players[s].inventory.gold = 0
               => /\ ~dropCoins(s).success
                  /\ dropCoins(s).error = Err("You have no coins to drop")
                  /\ leavesCoinStateAlone(dropCoins(s))

\* a player with no gold stands in a room with no coins whose collection
\* time is not the current time, in front of a missing exit, while a respawn
\* timer is pending
C31_Witness ==
    /\ spawnTimers # EmptyMap
    /\ \E s \in DOMAIN players :
           /\ players[s].inventory.gold = 0
           /\ gameState.roomStates[players[s].currentRoom].coins = 0
           /\ gameState.roomStates[players[s].currentRoom].lastCoinSpawn # now
           /\ \E d \in DirSet : ~HasExit(rooms[players[s].currentRoom], d)
           /\ ~collectCoins(s).success
           /\ ~dropCoins(s).success

(***************************************************************************)
(* Target exit counts during map generation.                               *)
(***************************************************************************)

\* room.targetExits || 2
targetOf(room) == IF room.targetExits = 0 THEN 2 ELSE room.targetExits

withinTargets(rs) == \A id \in DOMAIN rs : NumExits(rs[id]) <= targetOf(rs[id])

\* C32: after the spanning pass and after the fill pass of connectRooms no
\* room has more exits than its target exit count; a room goes above its
\* target only in the reachability repair
C32_ExitsWithinTarget ==
    /\ [](phase = "assigned" =>
             /\ withinTargets(rooms)
             /\ withinTargets(spanningPass(assignPositions(rooms, ROOM_COUNT), {0}, <<0>>,
                                           ROOM_COUNT))
             /\ withinTargets(connectRooms(rooms, ROOM_COUNT)))
    /\ [](phase = "connected" => withinTargets(rooms))
    /\ [][(withinTargets(rooms) /\ ~withinTargets(rooms'))
              => (phase = "connected" /\ phase' = "generated"
                  /\ rooms' = ensureReachability(rooms, ROOM_COUNT))]_vars

\* connectRooms has returned: a room at its target has left a grid neighbour
\* that still has room unconnected, and the repair is about to put a room
\* above its target
C32_Witness ==
    /\ phase = "connected"
    /\ withinTargets(rooms)
    /\ \E id \in DOMAIN rooms : \E d \in DirSet :
           /\ NumExits(rooms[id]) = targetOf(rooms[id])
           /\ ~HasExit(rooms[id], d)
           /\ findNeighborInDirection(rooms, id, d) # -1
           /\ canAddConnection(rooms[findNeighborInDirection(rooms, id, d)])
    /\ ~withinTargets(ensureReachability(rooms, ROOM_COUNT))

(***************************************************************************)
(* Where a ghost takes gold.                                               *)
(***************************************************************************)
ghostIn(roomId) == \E i \in DOMAIN ghosts : ghosts[i].currentRoom = roomId

goldOf(ps, s) == ps[s].inventory.gold

\* the step is a successful move of s into a room that holds a ghost, and
\* the encounter took gold
encounterMove(s) ==
    \E d \in DirSet, roll \in BOOLEAN, loss \in LossDraws :
        /\ movePlayer(s, d, roll, loss).success
        /\ movePlayer(s, d, roll, loss).encounter = "encounter"
        /\ ghostIn(rooms[players[s].currentRoom].exits[d].to)
        /\ players' = movePlayer(s, d, roll, loss).players

\* the step is the player's own doing: a drop, or the selection of another
\* character, which starts a new player without gold
ownDoing(s) ==
    \/ dropCoins(s).success /\ players' = dropCoins(s).players
    \/ \E u \in Usernames, c \in CharacterInputs :
           addPlayer(s, u, c).success /\ players' = addPlayer(s, u, c).players

\* C33: a ghost reduces a player's gold only within a successful movePlayer
\* whose destination room holds a ghost at that moment; a failed move and a
\* ghost moving into a player's room change nobody's gold, and a move into a
\* room without a ghost returns no encounter
C33_GoldLostOnlyOnEntry ==
    /\ [](\A s \in DOMAIN players : \A d \in DirSet, roll \in BOOLEAN, loss \in LossDraws :
              LET r == movePlayer(s, d, roll, loss)
              IN  /\ ~r.success
                      => /\ \A p \in DOMAIN players : goldOf(r.players, p) = goldOf(players, p)
                         /\ r.encounter = "none"
                  /\ r.success
                      => /\ \A p \in DOMAIN players \ {s} :
                                goldOf(r.players, p) = goldOf(players, p)
                         /\ goldOf(r.players, s) <= goldOf(players, s)
                         /\ goldOf(r.players, s) < goldOf(players, s)
                                => /\ ghostIn(r.players[s].currentRoom)
                                   /\ r.encounter = "encounter"
                                   /\ ~roll
                         /\ ~ghostIn(r.players[s].currentRoom)
                                => /\ r.encounter = "null"
                                   /\ goldOf(r.players, s) = goldOf(players, s))
    /\ [][ghosts' # ghosts => /\ players' = players
                              /\ gameState'.players = gameState.players]_vars
    /\ [][\A s \in DOMAIN players \cap DOMAIN players' :
              goldOf(players', s) < goldOf(players, s)
                  => encounterMove(s) \/ ownDoing(s)]_vars

\* a player with gold stands next to the room of a ghost that has a move
\* left: the player's move there can cost gold, the ghost's move to the
\* player cannot
C33_Witness ==
    \E s \in DOMAIN players : \E d \in DirSet : \E i \in DOMAIN ghosts :
        /\ goldOf(players, s) > 1
        /\ HasExit(rooms[players[s].currentRoom], d)
        /\ ghosts[i].currentRoom = rooms[players[s].currentRoom].exits[d].to
        /\ goldOf(movePlayer(s, d, FALSE, MIN_GOLD_LOSS).players, s) < goldOf(players, s)
        /\ ghosts[i].movesSinceSpawn < MaxGhostMoves
        /\ \E g \in moveGhost(ghosts[i]) : g.currentRoom = players[s].currentRoom

(***************************************************************************)
(* SpecTimers: the setTimeout timers of TimeoutManager and CoinSpawner as  *)
(* the event loop holds them.  Here characterTimers, idleTimers and        *)
(* spawnTimers are the Maps of the source, key -> timer object, and        *)
(* timeouts is the set of timer objects that are pending; a timer object   *)
(* is identified by its handle.  The clock advances in steps of TimeStep   *)
(* and does not pass a timer that is due.                                  *)
(***************************************************************************)
CHARACTER_TIMEOUT == 300000
IDLE_TIMEOUT == 300000

\* the clock's step, and the times at which the clock stops: in the runs of
\* the idle detection and in the runs with every kind of timer
TimeStep == 150000
MaxTime == 450000
MaxTimerTime == 300000

\* sessions that hold a player at the same time
MaxTimedPlayers == 1

\* the command lines a client sends: in the runs of the idle detection, and
\* in the runs with every kind of timer
IdleCommands == {"look", " "}
TimedCommands == {"look", "collect", "drop", " "}

\* the timer object a setTimeout call returns: one that is not pending
freshHandle(ts) == CHOOSE h \in 1..(Cardinality(ts) + 1) : \A t \in ts : t.handle # h

\* a respawn timer is armed for a room, the others for a session
setTimeout(ts, h, kind, key, delay, amount) ==
    ts \cup {[handle |-> h, kind |-> kind,
              sessionId |-> IF kind = "respawn" THEN "none" ELSE key,
              roomId |-> IF kind = "respawn" THEN key ELSE -1,
              due |-> now + delay, amount |-> amount]}

\* the key a timer was armed for
keyOf(t) == IF t.kind = "respawn" THEN t.roomId ELSE t.sessionId

clearTimeout(ts, handle) == {t \in ts : t.handle # handle}

\* an updateActivity that leaves the timer it replaces pending
updateActivityKeepingOld(map, ts, sessionId) ==
    LET h == freshHandle(ts)
    IN  [map |-> Put(map, sessionId, h),
         timeouts |-> setTimeout(ts, h, "idle", sessionId, IDLE_TIMEOUT, 0)]

\* TimeoutManager.updateActivity
updateActivity(map, ts, sessionId) ==
    LET cleared == IF sessionId \in DOMAIN map THEN clearTimeout(ts, map[sessionId]) ELSE ts
        h       == freshHandle(cleared)
    IN  [map |-> Put(map, sessionId, h),
         timeouts |-> setTimeout(cleared, h, "idle", sessionId, IDLE_TIMEOUT, 0)]

\* TimeoutManager.cancelCharacterTimeout on the Map and the timer objects
cancelCharacterTimer(map, ts, sessionId) ==
    IF sessionId \in DOMAIN map
    THEN [map |-> Del(map, sessionId), timeouts |-> clearTimeout(ts, map[sessionId])]
    ELSE [map |-> map, timeouts |-> ts]

\* TimeoutManager.startCharacterTimeout on the Map and the timer objects
armCharacterTimeout(map, ts, sessionId) ==
    LET c == cancelCharacterTimer(map, ts, sessionId)
        h == freshHandle(c.timeouts)
    IN  [map |-> Put(c.map, sessionId, h),
         timeouts |-> setTimeout(c.timeouts, h, "release", sessionId, CHARACTER_TIMEOUT, 0)]

\* TimeoutManager.clearSession on both Maps and the timer objects
clearSessionTimers(cmap, imap, ts, sessionId) ==
    LET c == cancelCharacterTimer(cmap, ts, sessionId)
    IN  [characterTimers |-> c.map,
         idleTimers |-> IF sessionId \in DOMAIN imap THEN Del(imap, sessionId) ELSE imap,
         timeouts |-> IF sessionId \in DOMAIN imap
                      THEN clearTimeout(c.timeouts, imap[sessionId]) ELSE c.timeouts]

\* a startRespawnTimer that leaves the timer it replaces pending
armRespawnTimerKeepingOld(map, ts, roomId, config) ==
    LET h == freshHandle(ts)
    IN  [map |-> Put(map, roomId, h),
         timeouts |-> setTimeout(ts, h, "respawn", roomId,
                                 IF config.respawnInterval # 0 THEN config.respawnInterval
                                 ELSE DEFAULT_RESPAWN_INTERVAL,
                                 config.amount)]

\* CoinSpawner.startRespawnTimer on the Map and the timer objects
armRespawnTimer(map, ts, roomId, config) ==
    LET cleared == IF roomId \in DOMAIN map THEN clearTimeout(ts, map[roomId]) ELSE ts
        h       == freshHandle(cleared)
    IN  [map |-> Put(map, roomId, h),
         timeouts |-> setTimeout(cleared, h, "respawn", roomId,
                                 IF config.respawnInterval # 0 THEN config.respawnInterval
                                 ELSE DEFAULT_RESPAWN_INTERVAL,
                                 config.amount)]

\* GameEngine.updatePlayerStatus
updatePlayerStatus(sessionId, status) ==
    IF sessionId \in DOMAIN players
    THEN [players |-> [players EXCEPT ![sessionId].status = status],
          gameState |-> [gameState EXCEPT !.players[sessionId].status = status]]
    ELSE [players |-> players, gameState |-> gameState]

InitTimers ==
    /\ NoAsync
    /\ phase = "running"
    /\ rooms = TimedWorld.rooms
    /\ locks = TimedWorld.locks
    /\ lockCount = Len(locks)
    /\ lockIter = Len(locks)
    /\ ghosts = <<>>
    /\ gameState = createInitialState(rooms)
    /\ players = EmptyMap
    /\ spawnTimers = EmptyMap
    /\ now = 0
    /\ socketState = [s \in SessionIds |-> "new"]
    /\ sessions = EmptyMap
    /\ characterTimers = EmptyMap
    /\ idleTimers = EmptyMap
    /\ files = [world |-> [kind |-> "json", rooms |-> rooms],
                state |-> SavedState(createInitialState(rooms))]
    /\ pc = Idle
    /\ autosaveTimer = TRUE

\* handleLogin with a username that is accepted
LoginTimed ==
    \E s \in SessionIds, u \in Usernames :
        /\ socketState[s] = "connected"
        /\ sessions' = Put(sessions, s, [username |-> Trim(u), characterId |-> "null"])
        /\ UNCHANGED <<genVars, files, loopVars, engineVars, socketState, characterTimers,
                       idleTimers>>

\* handleCharacterSelection with its updateActivity call
SelectCharacterTimed ==
    \E s \in SessionIds, c \in CharacterInputs :
        /\ socketState[s] = "connected"
        /\ Cardinality(DOMAIN players \cup {s}) <= MaxTimedPlayers
        /\ IF s \notin DOMAIN sessions \/ ~addPlayer(s, sessions[s].username, c).success
           THEN UNCHANGED <<players, gameState, sessions, idleTimers, timeouts, lastActivity>>
           ELSE LET r == addPlayer(s, sessions[s].username, c)
                    u == updateActivity(idleTimers, timeouts, s)
                IN  /\ players' = r.players
                    /\ gameState' = r.gameState
                    /\ sessions' = [sessions EXCEPT ![s].characterId = c]
                    /\ idleTimers' = u.map
                    /\ timeouts' = u.timeouts
                    /\ lastActivity' = Put(lastActivity, s, now)
        /\ UNCHANGED <<genVars, files, pc, autosaveTimer, writes, ghosts, spawnTimers, now,
                       socketState, characterTimers>>

\* handleCommand of one socket: updateActivity, then the command is parsed
\* and routed
CommandWith(s, commands) ==
    \E command \in commands :
        /\ socketState[s] = "connected"
        /\ IF Trim(command) = ""
           THEN UNCHANGED <<players, gameState, spawnTimers, idleTimers, timeouts, lastActivity>>
           ELSE LET u == updateActivity(idleTimers, timeouts, s)
                    parsed == parse(command)
                    r == CASE parsed.type = "collect" -> collectCoins(s)
                           [] parsed.type = "drop" -> dropCoins(s)
                           [] OTHER -> Fail(NoError)
                    armed == parsed.type = "collect" /\ r.success
                             /\ rooms[players[s].currentRoom].coins.spawnType = "respawn-timer"
                    a == IF armed
                         THEN armRespawnTimer(spawnTimers, u.timeouts, players[s].currentRoom,
                                              rooms[players[s].currentRoom].coins)
                         ELSE [map |-> spawnTimers, timeouts |-> u.timeouts]
                IN  /\ idleTimers' = u.map
                    /\ lastActivity' = Put(lastActivity, s, now)
                    /\ players' = r.players
                    /\ gameState' = r.gameState
                    /\ spawnTimers' = a.map
                    /\ timeouts' = a.timeouts
        /\ UNCHANGED <<genVars, files, pc, autosaveTimer, writes, ghosts, now, socketState,
                       sessions, characterTimers>>

CommandOf(s) == CommandWith(s, IdleCommands)

CommandIdle == \E s \in SessionIds : CommandOf(s)

CommandTimed == \E s \in SessionIds : CommandWith(s, TimedCommands)

\* handleDisconnect: the release timer is started for a session with a
\* character and a player, then clearSession runs on the same session id
DisconnectTimed ==
    \E s \in SessionIds :
        /\ socketState[s] = "connected"
        /\ socketState' = [socketState EXCEPT ![s] = "closed"]
        /\ LET started == IF /\ s \in DOMAIN sessions
                             /\ sessions[s].characterId # "null"
                             /\ s \in DOMAIN players
                          THEN armCharacterTimeout(characterTimers, timeouts, s)
                          ELSE [map |-> characterTimers, timeouts |-> timeouts]
               cleared == clearSessionTimers(started.map, idleTimers, started.timeouts, s)
           IN  /\ characterTimers' = cleared.characterTimers
               /\ idleTimers' = cleared.idleTimers
               /\ timeouts' = cleared.timeouts
        /\ UNCHANGED <<genVars, files, pc, autosaveTimer, writes, lastActivity, engineVars,
                       sessions>>

\* a pending timer that is due fires: its callback deletes the entry of its
\* key and runs onIdle, onTimeout or the respawn
TimeoutFires ==
    \E t \in timeouts :
        /\ t.due <= now
        /\ timeouts' = timeouts \ {t}
        /\ CASE t.kind = "idle" ->
                    /\ idleTimers' = Del(idleTimers, keyOf(t))
                    /\ players' = updatePlayerStatus(keyOf(t), "idle").players
                    /\ gameState' = updatePlayerStatus(keyOf(t), "idle").gameState
                    /\ UNCHANGED <<characterTimers, spawnTimers, sessions>>
             [] t.kind = "release" ->
                    /\ characterTimers' = Del(characterTimers, keyOf(t))
                    /\ players' = removePlayer(keyOf(t)).players
                    /\ gameState' = removePlayer(keyOf(t)).gameState
                    /\ sessions' = Del(sessions, keyOf(t))
                    /\ UNCHANGED <<idleTimers, spawnTimers>>
             [] OTHER ->
                    /\ gameState' = [gameState EXCEPT
                                        !.roomStates[keyOf(t)].coins = t.amount,
                                        !.roomStates[keyOf(t)].lastCoinSpawn = -1]
                    /\ spawnTimers' = Del(spawnTimers, keyOf(t))
                    /\ UNCHANGED <<players, characterTimers, idleTimers, sessions>>
        /\ UNCHANGED <<genVars, files, pc, autosaveTimer, writes, lastActivity, ghosts, now,
                       socketState>>

\* time passes by TimeStep, or up to the next timer that is due when that
\* is sooner
TickUpTo(limit) ==
    LET soon == {t.due : t \in {x \in timeouts : x.due < now + TimeStep}}
        next == IF soon = {} THEN now + TimeStep
                ELSE CHOOSE d \in soon : \A o \in soon : d <= o
    IN  /\ \A t \in timeouts : t.due > now
        /\ next <= limit
        /\ now' = next
        /\ UNCHANGED <<genVars, files, loopVars, players, gameState, ghosts, spawnTimers,
                       sessionVars>>

Tick == TickUpTo(MaxTime)

TickTimers == TickUpTo(MaxTimerTime)

\* the idle detection: sockets that look around, or do nothing
NextIdle ==
    \/ Connect
    \/ LoginTimed
    \/ SelectCharacterTimed
    \/ CommandIdle
    \/ DisconnectTimed
    \/ TimeoutFires
    \/ Tick

SpecIdle == InitTimers /\ [][NextIdle]_vars

\* every kind of timer: sockets that also collect and drop coins
NextTimers ==
    \/ Connect
    \/ LoginTimed
    \/ SelectCharacterTimed
    \/ CommandTimed
    \/ DisconnectTimed
    \/ TimeoutFires
    \/ TickTimers

SpecTimers == InitTimers /\ [][NextTimers]_vars


\* the same server with the event loop serving its timers and time passing
SpecIdleLive ==
    InitTimers /\ [][NextIdle]_vars /\ WF_vars(TimeoutFires) /\ WF_vars(Tick)

\* the times the clock shows
Times == {k * TimeStep : k \in 0..(MaxTime \div TimeStep)}

\* the pending timers of one kind and key
pendingOf(kind, key) == {t \in timeouts : t.kind = kind /\ keyOf(t) = key}

\* a connected session with a player that is not marked idle
activeSession(s) ==
    /\ socketState[s] = "connected"
    /\ s \in DOMAIN players
    /\ players[s].status = "active"

\* C34: a session that has selected a character and sends no command for the
\* idle timeout is marked idle; each command restarts the timeout, so a
\* session is never marked idle less than the idle timeout after its last
\* command, and never after it has disconnected
C34_IdleAfterTimeout ==
    /\ [](\A s \in SessionIds :
             activeSession(s)
                 => /\ s \in DOMAIN lastActivity
                    /\ now <= lastActivity[s] + IDLE_TIMEOUT
                    /\ \E t \in pendingOf("idle", s) :
                           t.due = lastActivity[s] + IDLE_TIMEOUT)
    /\ [](\A s \in SessionIds : \A t \in pendingOf("idle", s) :
             /\ socketState[s] = "connected"
             /\ t.due = lastActivity[s] + IDLE_TIMEOUT)
    /\ [](\A s \in SessionIds :
             socketState[s] = "connected" =>
                 \A t \in updateActivity(idleTimers, timeouts, s).timeouts :
                     (t.kind = "idle" /\ keyOf(t) = s) => t.due = now + IDLE_TIMEOUT)
    /\ [][\A s \in DOMAIN players \cap DOMAIN players' :
              (players[s].status # "idle" /\ players'[s].status = "idle")
                  => /\ socketState[s] = "connected"
                     /\ now' >= lastActivity[s] + IDLE_TIMEOUT]_vars
    /\ \A s \in SessionIds : \A at \in {x \in Times : x + IDLE_TIMEOUT <= MaxTime} :
           (activeSession(s) /\ lastActivity[s] = at)
               ~> \/ socketState[s] = "closed"
                  \/ s \in DOMAIN players /\ players[s].status = "idle"
                  \/ s \in DOMAIN lastActivity /\ lastActivity[s] > at

\* a session selected its character at the start, sent a command half a
\* timeout later, and has been marked idle a whole timeout after that
\* command, still connected
C34_Witness ==
    \E s \in DOMAIN players :
        /\ socketState[s] = "connected"
        /\ players[s].status = "idle"
        /\ players[s].connectedAt = 0
        /\ lastActivity[s] = TimeStep
        /\ now = TimeStep + IDLE_TIMEOUT


\* C38: a player who has been marked idle goes back to status active when
\* they next send a command
C38_CommandReactivates ==
    [][\A s \in DOMAIN players :
           (players[s].status = "idle" /\ CommandOf(s) /\ s \in DOMAIN idleTimers')
               => (s \in DOMAIN players' /\ players'[s].status = "active")]_vars


(***************************************************************************)
(* One pending timer per key.                                              *)
(***************************************************************************)
\* the Map of a kind of timer
timerMap(kind) ==
    CASE kind = "idle" -> idleTimers
      [] kind = "release" -> characterTimers
      [] OTHER -> spawnTimers

TimerKinds == {"idle", "release", "respawn"}

\* at most one timer object of the kind is pending for the key in ts
atMostOne(ts, kind, key) ==
    Cardinality({t \in ts : t.kind = kind /\ keyOf(t) = key}) <= 1

\* C40: at any time at most one idle timer and one character-release timer
\* is pending per session and at most one respawn timer per room: arming a
\* timer cancels the previous one for the same key, and a timer that fires
\* removes its own entry
C40_OneTimerPerKey ==
    /\ \A s \in SessionIds : atMostOne(timeouts, "idle", s) /\ atMostOne(timeouts, "release", s)
    /\ \A id \in DOMAIN rooms : atMostOne(timeouts, "respawn", id)
    /\ \A t \in timeouts :
           /\ keyOf(t) \in DOMAIN timerMap(t.kind)
           /\ timerMap(t.kind)[keyOf(t)] = t.handle
           /\ \A o \in timeouts : o.handle = t.handle => o = t
    /\ \A kind \in TimerKinds : \A key \in DOMAIN timerMap(kind) :
           \E t \in timeouts : t.kind = kind /\ keyOf(t) = key /\ t.handle = timerMap(kind)[key]
    /\ \A s \in SessionIds :
           LET u == updateActivity(idleTimers, timeouts, s)
               c == armCharacterTimeout(characterTimers, timeouts, s)
               again == armCharacterTimeout(c.map, c.timeouts, s)
               cleared == clearSessionTimers(c.map, idleTimers, c.timeouts, s)
           IN  /\ atMostOne(u.timeouts, "idle", s)
               /\ Cardinality(u.timeouts) <= Cardinality(timeouts) + 1
               /\ atMostOne(c.timeouts, "release", s)
               /\ atMostOne(again.timeouts, "release", s)
               /\ \A t \in cleared.timeouts : t.kind # "respawn" => keyOf(t) # s
               /\ s \notin DOMAIN cleared.characterTimers \cup DOMAIN cleared.idleTimers
    /\ \A id \in DOMAIN rooms :
           LET a == armRespawnTimer(spawnTimers, timeouts, id, rooms[id].coins)
           IN  /\ atMostOne(a.timeouts, "respawn", id)
               /\ \E t \in a.timeouts : t.handle = a.map[id] /\ t.due > now

\* both sockets have an idle timer pending, one of them armed again after
\* the first, and a respawn timer is pending for a room in which a player
\* stands over dropped coins, so that the next collection arms it again
C40_Witness ==
    /\ \A s \in SessionIds : pendingOf("idle", s) # {}
    /\ \E t \in timeouts : t.kind = "idle" /\ t.due = TimeStep + IDLE_TIMEOUT
    /\ \E s \in DOMAIN players :
           /\ socketState[s] = "connected"
           /\ pendingOf("respawn", players[s].currentRoom) # {}
           /\ gameState.roomStates[players[s].currentRoom].coins > 0
           /\ collectCoins(s).success

(***************************************************************************)
(* C35: exits of a generated world are symmetric and follow the grid.      *)
(***************************************************************************)
\* every exit of rs leads to the room in the adjacent grid cell of its
\* direction, and that room has the opposite exit back
exitsMirrored(rs) ==
    \A a \in DOMAIN rs : \A d \in DirSet :
        HasExit(rs[a], d) =>
            LET b == rs[a].exits[d].to
            IN  /\ b \in DOMAIN rs
                /\ HasExit(rs[b], getReverseDirection(d))
                /\ rs[b].exits[getReverseDirection(d)].to = a
                /\ rs[b].position.x = rs[a].position.x + Delta(d).dx
                /\ rs[b].position.y = rs[a].position.y + Delta(d).dy

\* after has the exits of before, with the same destinations
sameDestinations(before, after) ==
    /\ DOMAIN after = DOMAIN before
    /\ \A id \in DOMAIN before : \A d \in DirSet :
           /\ HasExit(after[id], d) <=> HasExit(before[id], d)
           /\ after[id].exits[d].to = before[id].exits[d].to

\* generate() on ROOM_COUNT rooms, for every assignment of target exits
GeneratedMirrored ==
    \A t \in TargetAssignments(ROOM_COUNT) :
        LET start     == [id \in 0..(ROOM_COUNT - 1) |-> createRoom(t[id])]
            connected == connectRooms(start, ROOM_COUNT)
        IN  /\ exitsMirrored(connected)
            /\ exitsMirrored(ensureReachability(connected, ROOM_COUNT))
            /\ exitsMirrored(generate(ROOM_COUNT, t))

\* every lock, and every second lock, addLocksAndKeys can apply to a
\* generated map of WORLD_ROOMS rooms
LocksKeepDestinations ==
    \A t \in TargetAssignments(WORLD_ROOMS) :
        LET w == generate(WORLD_ROOMS, t)
        IN  /\ exitsMirrored(w)
            /\ \A l1 \in createLock(w, <<>>) \ {NullLock} :
                   LET w1 == applyLock(w, l1)
                   IN  /\ sameDestinations(w, w1)
                       /\ exitsMirrored(w1)
                       /\ \A l2 \in createLock(w1, <<l1>>) \ {NullLock} :
                              /\ sameDestinations(w1, applyLock(w1, l2))
                              /\ exitsMirrored(applyLock(w1, l2))

\* C35: in a generated world every exit from A in direction d to B has the
\* opposite exit from B back to A, and B is the grid cell next to A in
\* direction d; locking and unlocking never change the destination of an exit
C35_ExitsMirrored ==
    /\ []GeneratedMirrored
    /\ []LocksKeepDestinations
    /\ []exitsMirrored(rooms)
    /\ [](\A s \in DOMAIN players : \A d \in DirSet : \A w \in MoveDraws :
              sameDestinations(rooms, movePlayer(s, d, w[1], w[2]).rooms))
    /\ [][sameDestinations(rooms, rooms')]_vars

\* a move has unlocked one side of an exit that the world data
\* locks on an item, the other side is still locked, an exit locked
\* by applyLock is still locked on both sides, and some generated map
\* needed the repair of ensureReachability
C35_Witness ==
    /\ \E id \in DOMAIN rooms : \E d \in DirSet :
           /\ rooms[id].exits[d].type = "open"
           /\ rooms[id].exits[d].requiredItem # "undefined"
           /\ Mirror(rooms, id, d).type = "locked"
    /\ \E i \in DOMAIN locks :
           /\ rooms[locks[i].roomId].exits[locks[i].direction].type = "locked"
           /\ Mirror(rooms, locks[i].roomId, locks[i].direction).type = "locked"
    /\ \E t \in TargetAssignments(ROOM_COUNT) :
           LET start == [id \in 0..(ROOM_COUNT - 1) |-> createRoom(t[id])]
           IN  ensureReachability(connectRooms(start, ROOM_COUNT), ROOM_COUNT)
                   # connectRooms(start, ROOM_COUNT)

(***************************************************************************)
(* C36: every character lock belongs to the player of its session.         *)
(***************************************************************************)
\* C36: every entry characterLocks[c] names a session that has a player
\* whose characterId is c, so that removePlayer of that session releases it
C36_LocksHaveOwners ==
    \A c \in DOMAIN gameState.characterLocks :
        LET s == gameState.characterLocks[c].sessionId
        IN  s \in DOMAIN players /\ players[s].characterId = c

(***************************************************************************)
(* C37: character locks loaded from a saved snapshot.                      *)
(***************************************************************************)
\* the ids of the characters getAvailableCharacters returns
getAvailableCharacters ==
    {characters[i].id : i \in {j \in DOMAIN characters :
                                  characters[j].id \notin DOMAIN gameState.characterLocks}}

\* C37: every locked character is owned by a session engine.players knows,
\* so that removePlayer can release it, or is offered for selection
C37_LockedCharactersReleasable ==
    \A c \in DOMAIN gameState.characterLocks :
        \/ gameState.characterLocks[c].sessionId \in DOMAIN players
        \/ c \in getAvailableCharacters

(***************************************************************************)
(* SpecShutdown: the saves of the state file as the event loop runs them.  *)
(* saveState serializes the state when it is called and hands the text to  *)
(* fs.writeFile; the write runs in the thread pool and the promise settles *)
(* in a later turn of the event loop. writes holds the calls of saveState  *)
(* that have not returned yet.                                             *)
(***************************************************************************)
MaxAutosaves == 1

\* saveState up to its await: the state is serialized and the write is handed
\* to fs.writeFile
beginSave(ws, by, state) ==
    Append(ws, [by |-> by, data |-> SavedState(state), status |-> "pending"])

withoutWrite(ws, i) == SubSeq(ws, 1, i - 1) \o SubSeq(ws, i + 1, Len(ws))

InitShutdown ==
    /\ NoAsync
    /\ phase = "running"
    /\ rooms = TimedWorld.rooms
    /\ locks = TimedWorld.locks
    /\ lockCount = Len(locks)
    /\ lockIter = Len(locks)
    /\ \E g \in GhostDraws(rooms) :
          /\ ghosts = g
          /\ gameState = [createInitialState(rooms) EXCEPT !.ghostLocations = getAllLocations(g)]
    /\ players = EmptyMap
    /\ spawnTimers = EmptyMap
    /\ now = 0
    /\ SessionIdle
    /\ files = [world |-> [kind |-> "json", rooms |-> rooms],
                state |-> SavedState(createInitialState(rooms))]
    /\ pc = Idle
    /\ autosaveTimer = TRUE

\* a socket event is served: the server answers until the process exits
ServedEvent ==
    /\ phase \in {"running", "stopping"}
    /\ AddPlayer \/ CollectCoins

\* the ghost movement interval fires
GhostTimer ==
    /\ phase = "running"
    /\ MoveAllGhosts

\* the autosave interval fires: the callback calls saveState
AutosaveBegins ==
    /\ autosaveTimer
    /\ Cardinality({i \in DOMAIN writes : writes[i].by = "autosave"}) < MaxAutosaves
    /\ writes' = beginSave(writes, "autosave", gameState)
    /\ UNCHANGED <<genVars, engineVars, sessionVars, files, pc, autosaveTimer, timeouts,
                   lastActivity>>

\* SIGTERM or SIGINT: gracefulShutdown up to the call of saveState
ShutdownBegins ==
    /\ phase = "running"
    /\ phase' = "stopping"
    /\ autosaveTimer' = FALSE
    /\ writes' = beginSave(writes, "shutdown", gameState)
    /\ UNCHANGED <<rooms, locks, lockCount, lockIter, engineVars, sessionVars, files, pc,
                   timeouts, lastActivity>>

\* fs.writeFile of one save runs in the thread pool: the file gets its text,
\* or the write fails
WriteFileRuns ==
    \E i \in DOMAIN writes, writeOk \in BOOLEAN :
        /\ phase # "exited"
        /\ writes[i].status = "pending"
        /\ files' = IF writeOk THEN [files EXCEPT !.state = writes[i].data] ELSE files
        /\ writes' = [writes EXCEPT ![i].status = IF writeOk THEN "written" ELSE "failed"]
        /\ UNCHANGED <<genVars, engineVars, sessionVars, pc, autosaveTimer, timeouts,
                       lastActivity>>

\* the await of one saveState returns (a failed write is caught and logged);
\* after the final save the process exits
SaveStateReturns ==
    \E i \in DOMAIN writes :
        /\ phase # "exited"
        /\ writes[i].status \in {"written", "failed"}
        /\ writes' = withoutWrite(writes, i)
        /\ phase' = IF writes[i].by = "shutdown" THEN "exited" ELSE phase
        /\ UNCHANGED <<rooms, locks, lockCount, lockIter, engineVars, sessionVars, files, pc,
                       autosaveTimer, timeouts, lastActivity>>

NextShutdown ==
    \/ ServedEvent
    \/ GhostTimer
    \/ AutosaveBegins
    \/ ShutdownBegins
    \/ WriteFileRuns
    \/ SaveStateReturns

SpecShutdown == InitShutdown /\ [][NextShutdown]_vars

\* C39: when the process exits after a final save whose write succeeded, the
\* state file holds the game state that save serialized
C39_FinalStateOnDisk ==
    [][\A i \in DOMAIN writes :
          (writes[i].by = "shutdown" /\ writes[i].status = "written" /\ phase' = "exited")
              => files'.state = writes[i].data]_vars

====
